---- MODULE Spec2Model ----
(***************************************************************************)
(* Process supervision of ASA-SERVER-MANAGER-2.0:                          *)
(*   src/src-tauri/src/services/process_manager.rs  (ProcessManager)       *)
(*   src/src-tauri/src/services/network.rs          (is_port_in_use)       *)
(*   src/src-tauri/src/services/rcon.rs             (RconService)          *)
(*                                                                         *)
(* The registry (processes: Mutex<HashMap<i64, ServerProcess>>), the OS    *)
(* processes it refers to, the background monitor thread, the per-start    *)
(* log watcher threads and the caller threads that run start_server,       *)
(* stop_server, is_running, shutdown_server and restart_server.  A step    *)
(* that the code runs while holding the registry lock without blocking is  *)
(* one action; stop_server, which blocks in child.wait() while holding     *)
(* the lock, and the monitor pass, whose polls and removals are separate   *)
(* system calls, are two actions each with the lock held in between.       *)
(***************************************************************************)
EXTENDS Integers, Sequences, FiniteSets, TLC

\* ---------------------------------------------------------------- bounds
\* Server ids and caller threads of the model.
Ids == {1}
Threads == {"t1", "t2"}
\* The threads that call shutdown_server and restart_server; every thread calls
\* start_server, stop_server and is_running.
Drivers == {"t1"}
\* OS processes spawned over a run.
MaxProcs == 2
\* Lines the server processes append to a log file over a run.
MaxLog == 2
\* Iterations of the watcher's wait-for-log-file loop (30 in the code).
MaxLogWait == 1
\* Iterations of shutdown_server's wait-for-exit loop (15 in the code).
MaxExitPoll == 1
\* Monitor passes counted per process after its exit (saturating).
MaxPasses == 2

Procs == 1..MaxProcs

\* The server ids the Guardian is asked about, the tasks that run its commands
\* and the OS process identifiers registered with it.
GuardedIds == {1, 2}
Tasks == {"g1", "g2"}
MaxPid == 1
Pids == 1..MaxPid

\* The cap of the crash log (100 in guardian.rs) and the number of log_crash
\* calls followed.
CrashLogCap == 3
MaxCrashes == 5
\* The crashes logged while the auto-restart preference is followed.
MaxLoggedBeside == 2

\* The server ids RCON sessions are opened for and the tasks that run the
\* RCON commands.
RconIds == {1, 2}
RconTasks == {"r1", "r2"}

\* ------------------------------------------------------------ vocabulary
PortKinds == {"game", "query", "rcon"}
Protos == {"tcp", "udp"}
Sockets == Protos \X PortKinds
Lifecycle == {"start", "stop", "shutdown", "restart"}

\* A log line is the set of marker phrases it contains.
MarkerStarted == "server has successfully started"
MarkerFullStartup == "Full Startup: "
MarkerCores == "Number of cores"
LogAlphabet == {{}, {MarkerStarted}}

VARIABLES
    registry,    \* processes: id -> the registered process, 0 when absent
    procState,   \* OS: process -> "none" | "alive" | "exited"
    procId,      \* the server id a process was spawned for
    stopFlag,    \* ServerProcess.stop_flag of the process's handle
    onlineFlag,  \* online_flag of the process's log watcher
    lock,        \* holder of the registry mutex: "free" | a thread | "monitor"
    monPc,       \* monitor thread: "sleep" | "remove"
    monOut,      \* try_wait outcome per id polled in the current pass
    pc,          \* caller thread: position
    op,          \* caller thread: the public operation in progress
    arg,         \* caller thread: server_id of the operation
    loc,         \* caller thread: locals (child handle, attempts)
    rv,          \* caller thread: the value being returned
    events,      \* "server-status-change" notifications, in emission order
    sessions,    \* RconService.connections: id -> who opened its session
    logExists,   \* the id's ShooterGame.log exists
    log,         \* the id's ShooterGame.log, a sequence of lines
    wpc,         \* log watcher of a process: "none" | "wait" | "tail" | "done"
    wpos,        \* log watcher: lines of the file already consumed
    wtries,      \* log watcher: attempts
    removedBy,   \* history: who took the process's entry out of the registry
    passes,      \* history: monitor passes completed since the exit, entry present
    okPasses,    \* history: those of them whose poll of the entry did not fail
    logAtStart,  \* history: length of the log when start_server returned Ok
    seen,        \* history: what start_server's precondition checks observed
    clean,       \* history: no other lifecycle call on the id overlapped this one
    logBroken,   \* the id's ShooterGame.log has become permanently unreadable
    server_pids,          \* GuardianService.server_pids: id -> pid, 0 when absent
    auto_restart_enabled, \* GuardianService.auto_restart_enabled: id -> setting
    crash_counts,         \* GuardianService.crash_counts: id -> count
    crash_log,            \* GuardianService.crash_log
    gLock,       \* holder of the GuardianState mutex: "free" | a task
    pidsLock,    \* holder of the server_pids mutex: "free" | a task
    gpc,         \* Guardian command task: position
    gop,         \* Guardian command task: the command in progress
    garg,        \* Guardian command task: server_id of the command
    gkeys,       \* get_all_health: the keys of server_pids still to visit
    ghealth,     \* Guardian command task: the snapshots collected or returned
    rLock,       \* holder of the RconState mutex: "free" | a task
    connLock,    \* holder of the connections mutex: "free" | a task
    rpc,         \* RCON command task: position
    rop,         \* RCON command task: the service method in progress
    rarg,        \* RCON command task: server_id of the command
    rret,        \* RCON command task: the result being returned
    rsent,       \* history: what the call in progress wrote to its session
    scan,        \* the marker check of one log line: the line, the flag, the result
    parsed,      \* parse_player_list: the response data and the players returned
    launch,      \* start_server: the launch settings and the argument list built
    merged       \* IniParser::merge: the two documents and the result

vars == <<registry, procState, procId, stopFlag, onlineFlag, lock,
          monPc, monOut, pc, op, arg, loc, rv, events, sessions, logExists,
          log, wpc, wpos, wtries, removedBy, passes, okPasses, logAtStart,
          seen, clean, logBroken, server_pids, auto_restart_enabled,
          crash_counts, crash_log, gLock, pidsLock, gpc, gop, garg, gkeys,
          ghealth, rLock, connLock, rpc, rop, rarg, rret, rsent, scan,
          parsed, launch, merged>>

osVars == <<procState, procId>>
flagVars == <<stopFlag, onlineFlag>>
monVars == <<monPc, monOut>>
logVars == <<logExists, log, logBroken>>
watchVars == <<wpc, wpos, wtries, logAtStart>>
guardVars == <<server_pids, auto_restart_enabled, crash_counts, crash_log,
               gLock, pidsLock, gpc, gop, garg, gkeys, ghealth>>
\* The RCON commands in progress and the two mutexes they take.
rconVars == <<rLock, connLock, rpc, rop, rarg, rret, rsent>>
\* The functions followed on their own, outside the running services.
fnVars == <<scan, parsed, launch, merged>>
\* The services beside the ProcessManager: RconService and GuardianService.
svcVars == <<sessions, guardVars, rconVars, fnVars>>
passVars == <<passes, okPasses>>

\* p: the child handle held; n: attempts; conn: the outcome of rcon.connect;
\* p0 (history): the live process registered for the id when shutdown_server
\* or restart_server was called; cmds (history): the RCON commands
\* shutdown_server has issued, in order; polls (history): the evaluations of
\* is_running in its wait loop; last: what its latest is_running returned.
NoLocals == [p |-> 0, n |-> 0, conn |-> "none", p0 |-> 0, cmds |-> <<>>,
             polls |-> 0, last |-> "none"]
threadVars == <<pc, op, arg, loc, rv, seen, clean>>
\* The ProcessManager with its processes, log files and watchers.
pmVars == <<registry, osVars, flagVars, lock, monVars, pc, op, arg, loc, rv,
            events, logVars, watchVars, removedBy, passVars, seen, clean>>
\* Everything outside the GuardianService.
restVars == <<pmVars, sessions, rconVars, fnVars>>
\* Everything outside the RconService and its map.
nonRconVars == <<pmVars, guardVars, fnVars>>

\* ---------------------------------------------------------------- strings
\* A string is the sequence of its characters.
WhiteSpace == {" ", "\t", "\n", "\r"}

\* str::contains(pat)
Contains(s, pat) ==
    \E k \in 0..(Len(s) - Len(pat)) : SubSeq(s, k + 1, k + Len(pat)) = pat

\* str::trim_end
RECURSIVE TrimEnd(_)
TrimEnd(s) ==
    IF s # <<>> /\ s[Len(s)] \in WhiteSpace
    THEN TrimEnd(SubSeq(s, 1, Len(s) - 1)) ELSE s

\* str::trim_start
RECURSIVE TrimStart(_)
TrimStart(s) ==
    IF s # <<>> /\ Head(s) \in WhiteSpace THEN TrimStart(Tail(s)) ELSE s

\* str::trim
Trim(s) == TrimStart(TrimEnd(s))

\* The characters of the three readiness markers of the log watcher.
MarkerText(m) ==
    CASE m = MarkerStarted ->
           <<"s", "e", "r", "v", "e", "r", " ", "h", "a", "s", " ", "s",
             "u", "c", "c", "e", "s", "s", "f", "u", "l", "l", "y", " ",
             "s", "t", "a", "r", "t", "e", "d">>
      [] m = MarkerFullStartup ->
           <<"F", "u", "l", "l", " ", "S", "t", "a", "r", "t", "u", "p",
             ":", " ">>
      [] m = MarkerCores ->
           <<"N", "u", "m", "b", "e", "r", " ", "o", "f", " ", "c", "o",
             "r", "e", "s">>

\* The marker phrases a line of text contains: the line as the log watcher's
\* check sees it.
MarkersIn(text) ==
    {m \in {MarkerStarted, MarkerFullStartup, MarkerCores} :
         Contains(text, MarkerText(m))}

Init ==
    /\ registry = [i \in Ids |-> 0]
    /\ procState = [p \in Procs |-> "none"]
    /\ procId = [p \in Procs |-> 0]
    /\ stopFlag = [p \in Procs |-> FALSE]
    /\ onlineFlag = [p \in Procs |-> FALSE]
    /\ lock = "free"
    /\ monPc = "sleep"
    /\ monOut = [i \in Ids |-> "none"]
    /\ pc = [t \in Threads |-> "idle"]
    /\ op = [t \in Threads |-> "none"]
    /\ arg = [t \in Threads |-> 0]
    /\ loc = [t \in Threads |-> NoLocals]
    /\ rv = [t \in Threads |-> "none"]
    /\ events = <<>>
    /\ sessions = [i \in RconIds |-> "none"]
    /\ logExists = [i \in Ids |-> FALSE]
    /\ log = [i \in Ids |-> <<>>]
    /\ wpc = [p \in Procs |-> "none"]
    /\ wpos = [p \in Procs |-> 0]
    /\ wtries = [p \in Procs |-> 0]
    /\ removedBy = [p \in Procs |-> {}]
    /\ passes = [p \in Procs |-> 0]
    /\ okPasses = [p \in Procs |-> 0]
    /\ logAtStart = [p \in Procs |-> 0]
    /\ seen = [t \in Threads |-> "unchecked"]
    /\ clean = [t \in Threads |-> TRUE]
    /\ logBroken = [i \in Ids |-> FALSE]
    /\ server_pids = [i \in GuardedIds |-> 0]
    /\ auto_restart_enabled = [i \in GuardedIds |-> "unset"]
    /\ crash_counts = [i \in GuardedIds |-> 0]
    /\ crash_log = <<>>
    /\ gLock = "free"
    /\ pidsLock = "free"
    /\ gpc = [g \in Tasks |-> "idle"]
    /\ gop = [g \in Tasks |-> "none"]
    /\ garg = [g \in Tasks |-> 0]
    /\ gkeys = [g \in Tasks |-> {}]
    /\ ghealth = [g \in Tasks |-> <<>>]
    /\ rLock = "free"
    /\ connLock = "free"
    /\ rpc = [r \in RconTasks |-> "idle"]
    /\ rop = [r \in RconTasks |-> "none"]
    /\ rarg = [r \in RconTasks |-> 0]
    /\ rret = [r \in RconTasks |-> "none"]
    /\ rsent = [r \in RconTasks |-> "none"]
    /\ scan = [st |-> "none"]
    /\ parsed = [st |-> "none"]
    /\ launch = [st |-> "none"]
    /\ merged = [st |-> "none"]

\* --------------------------------------------------------------- helpers
\* emit("server-status-change", ServerStatusEvent {server_id, status}); proc and
\* by record the process the event is about and the code path that emitted it.
Emit(ev, id, status, p, by) ==
    Append(ev, [id |-> id, status |-> status, proc |-> p, by |-> by])

\* Child::try_wait: Ok(Some(status)) | Ok(None) | Err(e).
TryWait(p) ==
    IF procState[p] = "exited" THEN {"exited", "error"} ELSE {"running", "error"}

\* The outcomes of the liveness check is_running makes for id: none when the
\* id has no entry.
TryWaitOf(id) ==
    IF registry[id] = 0 THEN {"absent"} ELSE TryWait(registry[id])

Min(a, b) == IF a < b THEN a ELSE b

\* The pass counters are kept for the registered process only.
ForgetPasses(p) ==
    /\ passes' = [passes EXCEPT ![p] = 0]
    /\ okPasses' = [okPasses EXCEPT ![p] = 0]

\* ------------------------------------------------------------ thread glue
\* Lifecycle calls on id that are in progress on other threads.
Overlapping(t, id) ==
    {u \in Threads \ {t} : pc[u] # "idle" /\ arg[u] = id /\ op[u] \in Lifecycle}

\* Thread t calls operation o on id and stands at its first step.
Call(t, o, id, first) ==
    /\ pc[t] = "idle"
    /\ pc' = [pc EXCEPT ![t] = first]
    /\ op' = [op EXCEPT ![t] = o]
    /\ arg' = [arg EXCEPT ![t] = id]
    /\ clean' = IF o \in Lifecycle
                THEN [u \in Threads |->
                        IF u = t THEN Overlapping(t, id) = {}
                        ELSE IF u \in Overlapping(t, id) THEN FALSE ELSE clean[u]]
                ELSE clean
    /\ loc' = [loc EXCEPT ![t].p0 =
                  IF o \in {"shutdown", "restart"} /\ registry[id] # 0
                     /\ procState[registry[id]] = "alive"
                  THEN registry[id] ELSE 0]
    /\ UNCHANGED <<rv, seen>>

\* The operation of thread t returns val.
Finish(t, val) ==
    /\ pc' = [pc EXCEPT ![t] = "ret"]
    /\ rv' = [rv EXCEPT ![t] = val]

\* The caller takes the returned value and drops the RconState guard it held
\* for the call; the thread is free for the next call.
Return(t) ==
    /\ pc[t] = "ret"
    /\ rLock' = IF rLock = t THEN "free" ELSE rLock
    /\ pc' = [pc EXCEPT ![t] = "idle"]
    /\ op' = [op EXCEPT ![t] = "none"]
    /\ arg' = [arg EXCEPT ![t] = 0]
    /\ loc' = [loc EXCEPT ![t] = NoLocals]
    /\ rv' = [rv EXCEPT ![t] = "none"]
    /\ seen' = [seen EXCEPT ![t] = "unchecked"]
    /\ clean' = [clean EXCEPT ![t] = TRUE]
    /\ UNCHANGED <<registry, osVars, flagVars, lock, monVars, events, sessions,
                   guardVars, connLock, rpc, rop, rarg, rret, rsent, fnVars,
                   logVars, watchVars, removedBy, passVars>>

\* ----------------------------------------------------------- environment
\* A server process exits on its own (crash, DoExit, end of its run).
ProcExit(p) ==
    /\ procState[p] = "alive"
    /\ procState' = [procState EXCEPT ![p] = "exited"]
    /\ UNCHANGED <<registry, procId, flagVars, lock, monVars, threadVars,
                   events, svcVars, logVars, watchVars, removedBy, passVars>>

\* A server process appends a line to its ShooterGame.log, creating the file.
ProcLog(p) ==
    /\ procState[p] = "alive"
    /\ Len(log[procId[p]]) < MaxLog
    /\ \E line \in LogAlphabet :
           log' = [log EXCEPT ![procId[p]] = Append(@, line)]
    /\ logExists' = [logExists EXCEPT ![procId[p]] = TRUE]
    /\ UNCHANGED logBroken
    /\ UNCHANGED <<registry, osVars, flagVars, lock, monVars, threadVars, events,
                   svcVars, watchVars, removedBy, passVars>>

\* The log file of id becomes unreadable for good (its volume is gone, its
\* handle is invalidated): every later read of it fails.
LogBreak(i) ==
    /\ logExists[i] /\ ~logBroken[i]
    /\ logBroken' = [logBroken EXCEPT ![i] = TRUE]
    /\ UNCHANGED <<registry, osVars, flagVars, lock, monVars, threadVars, events,
                   svcVars, logExists, log, watchVars, removedBy, passVars>>

\* ------------------------------------------------------------ is_running
\* is_running: the entry is removed exactly on Ok(Some(status)).
IsRunningRemoves(out) == out = "exited"

\* is_running: the value returned for a try_wait outcome ("absent": no entry).
IsRunningResult(out) == out = "running"

\* A faulty is_running: it reports the exit and leaves the entry in the map.
IsRunningRegistryKeeps(reg, id) == reg

\* processes.remove(&server_id) in is_running.
IsRunningRegistry(reg, id) == [reg EXCEPT ![id] = 0]

\* The body of is_running(id) under the registry lock, for try_wait outcome out.
IsRunningEffect(id, out) ==
    IF IsRunningRemoves(out)
    THEN /\ stopFlag' = [stopFlag EXCEPT ![registry[id]] = TRUE]
         /\ registry' = IsRunningRegistry(registry, id)
         /\ events' = Emit(events, id, "stopped", registry[id], "is_running")
         /\ removedBy' = [removedBy EXCEPT ![registry[id]] = @ \cup {"is_running"}]
         /\ ForgetPasses(registry[id])
         /\ UNCHANGED onlineFlag
    ELSE UNCHANGED <<registry, flagVars, events, removedBy, passVars>>

IsRunningCall(t, id) ==
    /\ Call(t, "is_running", id, "ir_check")
    /\ UNCHANGED <<registry, osVars, flagVars, lock, monVars, events, svcVars,
                   logVars, watchVars, removedBy, passVars>>

IsRunning(t) ==
    /\ pc[t] = "ir_check"
    /\ lock = "free"
    /\ \E out \in TryWaitOf(arg[t]) :
           /\ IsRunningEffect(arg[t], out)
           /\ Finish(t, IF IsRunningResult(out) THEN "true" ELSE "false")
    /\ UNCHANGED <<osVars, lock, monVars, op, arg, loc, seen, clean, svcVars,
                   logVars, watchVars>>

\* ----------------------------------------------------------- stop_server
\* A faulty stop_server: it reports an id without an entry as an error.
AfterStopOrNotRunning(t) ==
    IF op[t] = "restart"
    THEN pc' = [pc EXCEPT ![t] = "st_check"] /\ UNCHANGED rv
    ELSE Finish(t, IF registry[arg[t]] = 0 /\ pc[t] = "sp_remove"
                   THEN "NotRunning" ELSE "Ok")

\* After stop_server's body: restart_server goes on to start_server, stop_server
\* and shutdown_server return Ok.
AfterStop(t) ==
    IF op[t] = "restart"
    THEN pc' = [pc EXCEPT ![t] = "st_check"] /\ UNCHANGED rv
    ELSE Finish(t, "Ok")

\* A faulty stop_server: it looks the entry up and leaves it in the map.
StopRegistryKeeps(reg, id) == reg

\* processes.remove(&server_id) in stop_server.
StopRegistry(reg, id) == [reg EXCEPT ![id] = 0]

StopCall(t, id) ==
    /\ Call(t, "stop", id, "sp_remove")
    /\ UNCHANGED <<registry, osVars, flagVars, lock, monVars, events, svcVars,
                   logVars, watchVars, removedBy, passVars>>

\* stop_server up to child.kill(): lock, processes.remove, stop_flag, taskkill
\* and kill, which the OS may refuse.
StopRemove(t) ==
    /\ pc[t] = "sp_remove"
    /\ lock = "free"
    /\ IF registry[arg[t]] # 0
       THEN /\ registry' = StopRegistry(registry, arg[t])
            /\ stopFlag' = [stopFlag EXCEPT ![registry[arg[t]]] = TRUE]
            /\ removedBy' = [removedBy EXCEPT ![registry[arg[t]]] = @ \cup {"stop"}]
            /\ \E killed \in BOOLEAN :
                   procState' = [procState EXCEPT ![registry[arg[t]]] =
                                     IF killed THEN "exited" ELSE @]
            /\ ForgetPasses(registry[arg[t]])
            /\ loc' = [loc EXCEPT ![t].p = registry[arg[t]]]
            /\ lock' = t
            /\ pc' = [pc EXCEPT ![t] = "sp_wait"]
            /\ UNCHANGED rv
       ELSE /\ AfterStop(t)
            /\ UNCHANGED <<registry, stopFlag, removedBy, procState, loc, lock,
                           passVars>>
    /\ UNCHANGED <<procId, onlineFlag, monVars, op, arg, seen, clean,
                   events, svcVars, logVars, watchVars>>

\* stop_server from child.wait(), which blocks until the process has exited,
\* to the release of the lock.
StopWait(t) ==
    /\ pc[t] = "sp_wait"
    /\ procState[loc[t].p] = "exited"
    /\ events' = Emit(events, arg[t], "stopped", loc[t].p, "stop")
    /\ lock' = "free"
    /\ loc' = [loc EXCEPT ![t].p = 0]
    /\ AfterStop(t)
    /\ UNCHANGED <<registry, osVars, flagVars, monVars, op, arg, seen, clean,
                   svcVars, logVars, watchVars, removedBy, passVars>>

\* ---------------------------------------------------------- monitor thread
\* The first loop of a monitor pass: try_wait on every entry, the stop flag
\* set for those that exited.  (A pass over an empty registry changes nothing
\* and is left out as a stuttering step.)
MonitorPoll ==
    /\ monPc = "sleep"
    /\ lock = "free"
    /\ \E i \in Ids : registry[i] # 0
    /\ \E out \in [Ids -> {"absent", "exited", "running", "error"}] :
           /\ \A i \in Ids : out[i] \in TryWaitOf(i)
           /\ monOut' = out
           /\ stopFlag' = [p \in Procs |->
                  IF \E i \in Ids : registry[i] = p /\ out[i] = "exited"
                  THEN TRUE ELSE stopFlag[p]]
    /\ lock' = "monitor"
    /\ monPc' = "remove"
    /\ UNCHANGED <<registry, osVars, onlineFlag, threadVars, events, svcVars,
                   logVars, watchVars, removedBy, passVars>>

\* The ids the pass found exited (crashed_servers).
Crashed == {i \in Ids : monOut[i] = "exited"}

\* The orders in which the pass may walk a set of ids (HashMap iteration).
Orders(S) ==
    {s \in [1..Cardinality(S) -> S] : \A a, b \in 1..Cardinality(S) : a # b => s[a] # s[b]}

RECURSIVE EmitStopped(_, _, _)
EmitStopped(ev, order, k) ==
    IF k > Len(order) THEN ev
    ELSE EmitStopped(Emit(ev, order[k], "stopped", registry[order[k]], "monitor"),
                     order, k + 1)

\* A faulty monitor: it notifies and never removes.
MonitorRemovesNothing(i) == FALSE

\* The entries the monitor takes out of the registry at the end of a pass.
MonitorRemoves(i) == i \in Crashed

\* The second loop of a monitor pass: remove and emit for crashed_servers; the
\* lock is released at the end of the iteration.
MonitorRemove ==
    /\ monPc = "remove"
    /\ registry' = [i \in Ids |-> IF MonitorRemoves(i) THEN 0 ELSE registry[i]]
    /\ \E order \in Orders(Crashed) : events' = EmitStopped(events, order, 1)
    /\ removedBy' = [p \in Procs |->
           IF \E i \in Ids : registry[i] = p /\ MonitorRemoves(i)
           THEN removedBy[p] \cup {"monitor"} ELSE removedBy[p]]
    /\ passes' = [p \in Procs |->
           IF \E i \in Ids : registry[i] = p /\ MonitorRemoves(i) THEN 0
           ELSE IF \E i \in Ids : registry[i] = p /\ procState[p] = "exited"
           THEN Min(passes[p] + 1, MaxPasses) ELSE passes[p]]
    /\ okPasses' = [p \in Procs |->
           IF \E i \in Ids : registry[i] = p /\ MonitorRemoves(i) THEN 0
           ELSE IF \E i \in Ids : registry[i] = p /\ procState[p] = "exited"
                                  /\ monOut[i] # "error"
           THEN Min(okPasses[p] + 1, MaxPasses) ELSE okPasses[p]]
    /\ lock' = "free"
    /\ monPc' = "sleep"
    /\ monOut' = [i \in Ids |-> "none"]
    /\ UNCHANGED <<osVars, flagVars, threadVars, svcVars, logVars, watchVars>>

\* ---------------------------------------------------------- start_server
\* A faulty port check: only the TCP bind is tried.
is_port_in_use_tcp_only(busy, port) == <<"tcp", port>> \in busy

\* network::is_port_in_use: the TCP bind or the UDP bind of the port fails.
is_port_in_use(busy, port) ==
    <<"tcp", port>> \in busy \/ <<"udp", port>> \in busy

\* start_server's checks before the spawn, in the code's order.
StartPrecheck(exe, busy) ==
    IF ~exe THEN "ExecutableNotFound"
    ELSE IF is_port_in_use(busy, "game") THEN "GamePortInUse"
    ELSE IF is_port_in_use(busy, "query") THEN "QueryPortInUse"
    ELSE IF is_port_in_use(busy, "rcon") THEN "RconPortInUse"
    ELSE "ok"

\* The process slots not used yet, and the calls that will still need one.
Unspawned == {p \in Procs : procState[p] = "none"}
WillSpawn ==
    {u \in Threads : op[u] \in {"start", "restart"}
                     /\ pc[u] \in {"rs_isrun", "sp_remove", "sp_wait", "st_check"}}
FreshProc == CHOOSE p \in Unspawned : \A q \in Unspawned : p <= q

StartCall(t, id) ==
    /\ Cardinality(Unspawned) > Cardinality(WillSpawn)
    /\ Call(t, "start", id, "st_check")
    /\ UNCHANGED <<registry, osVars, flagVars, lock, monVars, events, svcVars,
                   logVars, watchVars, removedBy, passVars>>

\* start_server from its entry to the spawn: the executable and the ports as
\* the checks find them (busy: the sockets held at that moment by other
\* applications or by a server process that has bound its ports).
StartCheck(t) ==
    /\ pc[t] = "st_check"
    /\ \E exe \in BOOLEAN, busy \in SUBSET Sockets, spawned \in BOOLEAN :
         LET err == StartPrecheck(exe, busy)
             bad == ~exe \/ \E s \in busy : TRUE
         IN  /\ seen' = [seen EXCEPT ![t] = IF bad THEN "bad" ELSE "good"]
             /\ IF err # "ok"
                THEN Finish(t, err) /\ UNCHANGED <<osVars, loc>>
                ELSE IF ~spawned
                THEN Finish(t, "SpawnFailed") /\ UNCHANGED <<osVars, loc>>
                ELSE /\ procState' = [procState EXCEPT ![FreshProc] = "alive"]
                     /\ procId' = [procId EXCEPT ![FreshProc] = arg[t]]
                     /\ loc' = [loc EXCEPT ![t].p = FreshProc]
                     /\ pc' = [pc EXCEPT ![t] = "st_grace"]
                     /\ UNCHANGED rv
    /\ UNCHANGED <<registry, flagVars, lock, monVars, op, arg, clean, events,
                   svcVars, logVars, watchVars, removedBy, passVars>>

\* A faulty poll: the exit status is ignored.
StartPollResultIgnoresExit(out) == IF out = "error" THEN "CheckFailed" ELSE "ok"

\* start_server's poll at the end of the grace period: what it does for a
\* try_wait outcome.
StartPollResult(out) ==
    IF out = "exited" THEN "ImmediateExit"
    ELSE IF out = "error" THEN "CheckFailed"
    ELSE "ok"

\* start_server after the grace period: child.try_wait().
StartPoll(t) ==
    /\ pc[t] = "st_grace"
    /\ \E out \in TryWait(loc[t].p) :
         IF StartPollResult(out) # "ok"
         THEN Finish(t, StartPollResult(out))
         ELSE pc' = [pc EXCEPT ![t] = "st_emit"] /\ UNCHANGED rv
    /\ UNCHANGED <<registry, osVars, flagVars, lock, monVars, op, arg, loc, seen,
                   clean, events, svcVars, logVars, watchVars, removedBy, passVars>>

\* start_server: emit_status_change(server_id, "running").
StartEmit(t) ==
    /\ pc[t] = "st_emit"
    /\ events' = Emit(events, arg[t], "running", loc[t].p, "start")
    /\ pc' = [pc EXCEPT ![t] = "st_insert"]
    /\ UNCHANGED <<registry, osVars, flagVars, lock, monVars, op, arg, loc, rv,
                   seen, clean, svcVars, logVars, watchVars, removedBy, passVars>>

\* start_server: processes.insert under the lock (an entry already there is
\* dropped), the log watcher thread spawned, Ok returned.
StartInsert(t) ==
    /\ pc[t] = "st_insert"
    /\ lock = "free"
    /\ registry' = [registry EXCEPT ![arg[t]] = loc[t].p]
    /\ IF registry[arg[t]] # 0
       THEN /\ removedBy' = [removedBy EXCEPT ![registry[arg[t]]] = @ \cup {"start"}]
            /\ ForgetPasses(registry[arg[t]])
       ELSE UNCHANGED <<removedBy, passVars>>
    /\ wpc' = [wpc EXCEPT ![loc[t].p] = "wait"]
    /\ logAtStart' = [logAtStart EXCEPT ![loc[t].p] = Len(log[arg[t]])]
    /\ Finish(t, "Ok")
    /\ UNCHANGED <<osVars, flagVars, lock, monVars, op, arg, loc, seen, clean,
                   events, svcVars, logVars, wpos, wtries>>

\* ------------------------------------------------------------ log watcher
\* The ready check of a log line: line.contains of the three markers.
IsReadyLine(line) ==
    MarkerStarted \in line \/ MarkerFullStartup \in line \/ MarkerCores \in line

\* The watcher waits for the log file, opens it and seeks to its end; the file
\* may fail to open, and is given up after the attempts.  The wait loop's
\* condition is !log_file_path.exists() && attempts < 30: the stop flag is not
\* read before the tail loop.
WatchOpen(p) ==
    /\ wpc[p] = "wait"
    /\ IF logExists[procId[p]]
       THEN \E opened \in BOOLEAN :
              /\ wpc' = [wpc EXCEPT ![p] = IF opened THEN "tail" ELSE "done"]
              /\ wpos' = [wpos EXCEPT ![p] = IF opened THEN Len(log[procId[p]]) ELSE @]
              /\ UNCHANGED wtries
       ELSE IF wtries[p] < MaxLogWait
       THEN wtries' = [wtries EXCEPT ![p] = @ + 1] /\ UNCHANGED <<wpc, wpos>>
       ELSE wpc' = [wpc EXCEPT ![p] = "done"] /\ UNCHANGED <<wpos, wtries>>
    /\ UNCHANGED <<registry, osVars, flagVars, lock, monVars, threadVars, events,
                   svcVars, logVars, logAtStart, removedBy, passVars>>

\* One iteration of the tail loop: the stop flag ends the loop; a failed read
\* (Err(_)) sleeps and goes round again; a line read is consumed and checked
\* for readiness.  (Ok(0), nothing new to read, changes nothing and is left out.)
WatchRead(p) ==
    /\ wpc[p] = "tail"
    /\ IF stopFlag[p]
       THEN wpc' = [wpc EXCEPT ![p] = "done"] /\ UNCHANGED <<wpos, onlineFlag, events>>
       ELSE IF logBroken[procId[p]]
       THEN UNCHANGED <<wpc, wpos, onlineFlag, events>>
       ELSE /\ wpos[p] < Len(log[procId[p]])
            /\ wpos' = [wpos EXCEPT ![p] = @ + 1]
            /\ IF ~onlineFlag[p] /\ IsReadyLine(log[procId[p]][wpos[p] + 1])
               THEN /\ onlineFlag' = [onlineFlag EXCEPT ![p] = TRUE]
                    /\ events' = Emit(events, procId[p], "online", p, "watcher")
               ELSE UNCHANGED <<onlineFlag, events>>
            /\ UNCHANGED wpc
    /\ UNCHANGED <<registry, osVars, stopFlag, lock, monVars, threadVars, svcVars,
                   logVars, wtries, logAtStart, removedBy, passVars>>

\* The tail loop's iteration in the two steps the watcher thread takes it in,
\* for the calls that set the stop flag in between.  First the loop condition,
\* !stop_flag_clone.load(SeqCst).
WatchLoad(p) ==
    /\ wpc[p] = "tail"
    /\ wpc' = [wpc EXCEPT ![p] = IF stopFlag[p] THEN "done" ELSE "read"]
    /\ UNCHANGED <<registry, osVars, flagVars, lock, monVars, threadVars, events,
                   svcVars, logVars, wpos, wtries, logAtStart, removedBy,
                   passVars>>

\* Then the loop body: read_line, and for a line read the readiness check with
\* its "online" notification and database write; Ok(0) and Err(_) sleep.  The
\* stop flag is not read again before the next iteration.
WatchLine(p) ==
    /\ wpc[p] = "read"
    /\ wpc' = [wpc EXCEPT ![p] = "tail"]
    /\ IF ~logBroken[procId[p]] /\ wpos[p] < Len(log[procId[p]])
       THEN /\ wpos' = [wpos EXCEPT ![p] = @ + 1]
            /\ IF ~onlineFlag[p] /\ IsReadyLine(log[procId[p]][wpos[p] + 1])
               THEN /\ onlineFlag' = [onlineFlag EXCEPT ![p] = TRUE]
                    /\ events' = Emit(events, procId[p], "online", p, "watcher")
               ELSE UNCHANGED <<onlineFlag, events>>
       ELSE UNCHANGED <<wpos, onlineFlag, events>>
    /\ UNCHANGED <<registry, osVars, stopFlag, lock, monVars, threadVars, svcVars,
                   logVars, wtries, logAtStart, removedBy, passVars>>

\* ------------------------------------------------- the marker check alone
\* The lines handed to the marker check: a body with something before and
\* after it; read_line delivers the line with its newline.
Lines ==
    LET LineBodies ==
            {<<>>,
             MarkerText(MarkerStarted),
             <<"S">> \o Tail(MarkerText(MarkerStarted)),
             MarkerText(MarkerCores),
             <<"F", "u", "l", "l", " ", "S", "t", "a", "r", "t", "u", "p", ":">>,
             <<"f", "u", "l", "l", " ", "s", "t", "a", "r", "t", "u", "p", ":">>}
        LinePrefixes == {<<>>, <<"x", " ">>}
        LineSuffixes == {<<>>, <<" ">>, <<"4">>, <<" ", "4">>}
    IN  {pre \o body \o post \o <<"\n">> :
             pre \in LinePrefixes, body \in LineBodies, post \in LineSuffixes}

\* The server appends a line to its log while the watcher tails it; online is
\* the watcher's online_flag at that moment.
LineAppended(text, online) ==
    /\ scan.st \in {"none", "checked"}
    /\ scan' = [line |-> text, online |-> online, st |-> "read", ready |-> FALSE]
    /\ UNCHANGED <<pmVars, sessions, guardVars, rconVars, parsed, launch, merged>>

\* The tail loop's Ok(_) arm on that line: trim_end, the emptiness test and,
\* with the flag unset, the marker check; ready tells whether the "online"
\* transition was made.
LineChecked ==
    /\ scan.st = "read"
    /\ LET line == TrimEnd(scan.line)
       IN  scan' = [scan EXCEPT
                       !.st = "checked",
                       !.ready = /\ line # <<>>
                                 /\ ~scan.online
                                 /\ IsReadyLine(MarkersIn(line))]
    /\ UNCHANGED <<pmVars, sessions, guardVars, rconVars, parsed, launch, merged>>

\* ------------------------------------------------------------ RconService
\* The service methods of rcon.rs, each reached through its Tauri command of
\* commands/rcon.rs, which holds the RconState mutex from state.0.lock().await
\* to its return.
RconMethods ==
    {"connect", "disconnect", "send_command",
     "get_players", "broadcast", "kick_player", "ban_player", "unban_player",
     "save_world", "destroy_wild_dinos", "set_time", "message_player"}

\* The command word a method hands to send_command; "raw" is the caller's own
\* command string.
CommandOf(o) ==
    CASE o = "send_command" -> "raw"
      [] o = "get_players" -> "ListPlayers"
      [] o = "broadcast" -> "ServerChat"
      [] o = "kick_player" -> "KickPlayer"
      [] o = "ban_player" -> "BanPlayer"
      [] o = "unban_player" -> "UnbanPlayer"
      [] o = "save_world" -> "SaveWorld"
      [] o = "destroy_wild_dinos" -> "DestroyWildDinos"
      [] o = "set_time" -> "SetTimeOfDay"
      [] o = "message_player" -> "ServerChatTo"

\* A faulty connect: a failed attempt drops the session the id had.
ConnectSessionsDropsOnFailure(s, id, who, ok) ==
    [s EXCEPT ![id] = IF ok THEN who ELSE "none"]

\* The connections map after connect(id) by who: connections.insert on Ok,
\* nothing on Err.
ConnectSessions(s, id, who, ok) ==
    IF ok THEN [s EXCEPT ![id] = who] ELSE s

\* A faulty send_command: without a session it reports success.
SendWithoutSessionOk == "Ok"

\* What send_command returns when the id has no session.
SendWithoutSession == "NoConnection"

\* Task r invokes the Tauri command of method o for id.
RconCall(r, o, id) ==
    /\ rpc[r] = "idle"
    /\ rpc' = [rpc EXCEPT ![r] = "enter"]
    /\ rop' = [rop EXCEPT ![r] = o]
    /\ rarg' = [rarg EXCEPT ![r] = id]
    /\ UNCHANGED <<nonRconVars, sessions, rLock, connLock, rret, rsent>>

\* let service = state.0.lock().await, and the first await of the service
\* method.
RconEnter(r) ==
    /\ rpc[r] = "enter"
    /\ rLock = "free"
    /\ rLock' = r
    /\ rpc' = [rpc EXCEPT ![r] =
                   CASE rop[r] = "connect" -> "connecting"
                     [] rop[r] = "disconnect" -> "disc"
                     [] OTHER -> "cmd_lock"]
    /\ UNCHANGED <<nonRconVars, sessions, connLock, rop, rarg, rret, rsent>>

\* connect: the TCP connection and the login, made before the connections
\* mutex is taken; Ok inserts the session under the mutex.
RconConnect(r) ==
    /\ rpc[r] = "connecting"
    /\ \E ok \in BOOLEAN :
           /\ ok => connLock = "free"
           /\ sessions' = ConnectSessions(sessions, rarg[r], r, ok)
           /\ rret' = [rret EXCEPT ![r] = IF ok THEN "Ok" ELSE "ConnectFailed"]
    /\ rpc' = [rpc EXCEPT ![r] = "ret"]
    /\ UNCHANGED <<nonRconVars, rLock, connLock, rop, rarg, rsent>>

\* disconnect: connections.remove under the mutex.
RconDisconnect(r) ==
    /\ rpc[r] = "disc"
    /\ connLock = "free"
    /\ sessions' = [sessions EXCEPT ![rarg[r]] = "none"]
    /\ rret' = [rret EXCEPT ![r] =
                   IF sessions[rarg[r]] # "none" THEN "Ok" ELSE "NoConnection"]
    /\ rpc' = [rpc EXCEPT ![r] = "ret"]
    /\ UNCHANGED <<nonRconVars, rLock, connLock, rop, rarg, rsent>>

\* send_command up to conn.cmd(command): the connections mutex is taken and,
\* with a session, the command is written to it; the guard stays alive while
\* the response is awaited.
RconSend(r) ==
    /\ rpc[r] = "cmd_lock"
    /\ connLock = "free"
    /\ IF sessions[rarg[r]] # "none"
       THEN /\ connLock' = r
            /\ rsent' = [rsent EXCEPT ![r] = CommandOf(rop[r])]
            /\ rpc' = [rpc EXCEPT ![r] = "cmd_wait"]
            /\ UNCHANGED rret
       ELSE /\ rret' = [rret EXCEPT ![r] = SendWithoutSession]
            /\ rpc' = [rpc EXCEPT ![r] = "ret"]
            /\ UNCHANGED <<connLock, rsent>>
    /\ UNCHANGED <<nonRconVars, sessions, rLock, rop, rarg>>

\* The server's response, or the failure of the exchange, arrives; the
\* connections mutex is released.  A failed exchange leaves the session in
\* the map.
RconResponse(r) ==
    /\ rpc[r] = "cmd_wait"
    /\ \E ok \in BOOLEAN :
           rret' = [rret EXCEPT ![r] = IF ok THEN "Ok" ELSE "CommandFailed"]
    /\ connLock' = "free"
    /\ rpc' = [rpc EXCEPT ![r] = "ret"]
    /\ UNCHANGED <<nonRconVars, sessions, rLock, rop, rarg, rsent>>

\* The command returns: the RconState guard is dropped.
RconReturn(r) ==
    /\ rpc[r] = "ret"
    /\ rLock' = "free"
    /\ rpc' = [rpc EXCEPT ![r] = "idle"]
    /\ rop' = [rop EXCEPT ![r] = "none"]
    /\ rarg' = [rarg EXCEPT ![r] = 0]
    /\ rret' = [rret EXCEPT ![r] = "none"]
    /\ rsent' = [rsent EXCEPT ![r] = "none"]
    /\ UNCHANGED <<nonRconVars, sessions, connLock>>

\* ------------------------------------------------------ parse_player_list
Digits == <<"0", "1", "2", "3", "4", "5", "6", "7", "8", "9">>
IsDigit(c) == \E k \in DOMAIN Digits : Digits[k] = c
DigitValue(c) == (CHOOSE k \in DOMAIN Digits : Digits[k] = c) - 1

\* The number a string of decimal digits denotes.
RECURSIVE DecimalValue(_)
DecimalValue(s) ==
    IF s = <<>> THEN 0
    ELSE DecimalValue(SubSeq(s, 1, Len(s) - 1)) * 10 + DigitValue(s[Len(s)])

\* str::parse::<i64>: an optional sign and at least one digit, nothing else.
\* (The strings followed here are far from the ends of the i64 range.)
ParseI64(s) ==
    LET body == IF s # <<>> /\ Head(s) \in {"+", "-"} THEN Tail(s) ELSE s
    IN  IF body # <<>> /\ \A k \in DOMAIN body : IsDigit(body[k])
        THEN [ok |-> TRUE,
              value |-> IF Head(s) = "-" THEN 0 - DecimalValue(body)
                        ELSE DecimalValue(body)]
        ELSE [ok |-> FALSE, value |-> 0]

\* str::find(c): the position of the first c, 0 for None.
Find(s, c) ==
    IF \E k \in DOMAIN s : s[k] = c
    THEN CHOOSE k \in DOMAIN s : s[k] = c /\ \A j \in 1..(k - 1) : s[j] # c
    ELSE 0

\* str::lines: the text between line feeds, without the carriage return that
\* precedes a line feed.
RECURSIVE SplitLines(_)
SplitLines(s) ==
    IF s = <<>> THEN <<>>
    ELSE LET k == Find(s, "\n")
             n == IF k > 1 /\ s[k - 1] = "\r" THEN k - 2 ELSE k - 1
         IN  IF k = 0 THEN <<s>>
             ELSE <<SubSeq(s, 1, n)>> \o SplitLines(SubSeq(s, k + 1, Len(s)))

\* str::splitn(2, c)
SplitN2(s, c) ==
    LET k == Find(s, c)
    IN  IF k = 0 THEN <<s>>
        ELSE <<SubSeq(s, 1, k - 1), SubSeq(s, k + 1, Len(s))>>

SentinelText ==
    <<"N", "o", " ", "P", "l", "a", "y", "e", "r", "s", " ", "C", "o", "n",
      "n", "e", "c", "t", "e", "d">>

\* The body of parse_player_list's loop for one line: the players it pushes.
ParsePlayerLine(raw) ==
    LET line == Trim(raw)
    IN  IF line = <<>> \/ line = SentinelText THEN <<>>
        ELSE LET dot_pos == Find(line, ".")
             IN  IF dot_pos = 0 THEN <<>>
                 ELSE LET id == ParseI64(Trim(SubSeq(line, 1, dot_pos - 1)))
                          rest == Trim(SubSeq(line, dot_pos + 1, Len(line)))
                          parts == SplitN2(rest, ",")
                      IN  IF id.ok /\ Len(parts) >= 2
                          THEN <<[id |-> id.value,
                                  name |-> Trim(parts[1]),
                                  steam_id |-> Trim(parts[2])]>>
                          ELSE <<>>

RECURSIVE ParsePlayerLines(_)
ParsePlayerLines(lines) ==
    IF lines = <<>> THEN <<>>
    ELSE ParsePlayerLine(Head(lines)) \o ParsePlayerLines(Tail(lines))

parse_player_list(data) == ParsePlayerLines(SplitLines(data))

\* The responses followed.  A line is an index, a dot, a name, a comma and an
\* identifier, each in several forms or missing, or a line without a player;
\* a response is one line, or two of the paired lines with their line ends.
Responses ==
    LET IndexForms == {<<"0">>, <<"1", "2">>, <<"-", "1">>, <<"x">>}
        DotForms == {<<".", " ">>, <<".">>, <<>>}
        NameForms == {<<"A", "l">>, <<>>}
        CommaForms == {<<",", " ">>, <<>>}
        IdentifierForms == {<<"7", "6">>, <<>>}
        PlayerLines ==
            {i \o d \o n \o c \o t :
                 i \in IndexForms, d \in DotForms, n \in NameForms,
                 c \in CommaForms, t \in IdentifierForms}
        OtherLines ==
            {<<>>, SentinelText, <<" ">> \o SentinelText \o <<" ">>,
             <<"n">> \o Tail(SentinelText)}
        PairedLines ==
            {<<"0", ".", " ", "A", "l", ",", " ", "7", "6">>,
             <<"1", "2", ".", " ", "A", "l", ",", " ", "7", "6">>,
             <<"0", ".", " ", "A", "l", ",", " ">>,
             <<"x">>, <<>>, SentinelText}
        LineEnds == {<<"\n">>, <<"\r", "\n">>}
    IN  PlayerLines \cup OtherLines
            \cup {a \o e \o b :
                      a \in PairedLines, b \in PairedLines, e \in LineEnds}
            \cup {a \o e \o b \o e :
                      a \in PairedLines, b \in PairedLines, e \in LineEnds}

\* The server's answer to ListPlayers arrives in get_players.
ResponseReceived(data) ==
    /\ parsed.st = "none"
    /\ parsed' = [data |-> data, st |-> "received", players |-> <<>>]
    /\ UNCHANGED <<pmVars, sessions, guardVars, rconVars, scan, launch, merged>>

\* get_players hands the data to parse_player_list.
ResponseParsed ==
    /\ parsed.st = "received"
    /\ parsed' = [parsed EXCEPT !.st = "parsed",
                                !.players = parse_player_list(parsed.data)]
    /\ UNCHANGED <<pmVars, sessions, guardVars, rconVars, scan, launch, merged>>

\* --------------------------------------- start_server: launch arguments
\* Option<T>
None == [some |-> FALSE]
Some(v) == [some |-> TRUE, v |-> v]

\* format!("{}", n) for an integer that is not negative.
RECURSIVE FormatInt(_)
FormatInt(n) ==
    IF n < 10 THEN <<Digits[n + 1]>>
    ELSE FormatInt(n \div 10) \o <<Digits[(n % 10) + 1]>>

\* str::split_whitespace: the maximal runs of characters that are not white
\* space, in order.
RECURSIVE SplitWhitespace(_)
SplitWhitespace(s) ==
    LET t == TrimStart(s)
        n == IF \E k \in DOMAIN t : t[k] \in WhiteSpace
             THEN (CHOOSE k \in DOMAIN t :
                       t[k] \in WhiteSpace /\ \A j \in 1..(k - 1) : t[j] \notin WhiteSpace) - 1
             ELSE Len(t)
    IN  IF t = <<>> THEN <<>>
        ELSE <<SubSeq(t, 1, n)>> \o SplitWhitespace(SubSeq(t, n + 1, Len(t)))

\* [String]::join(sep)
RECURSIVE Join(_, _)
Join(list, sep) ==
    IF list = <<>> THEN <<>>
    ELSE IF Len(list) = 1 THEN list[1]
    ELSE list[1] \o sep \o Join(Tail(list), sep)

\* The literals of the format strings.
Lit ==
    [listen |->
         <<"?", "l", "i", "s", "t", "e", "n">>,
     session_name |->
         <<"?", "S", "e", "s", "s", "i", "o", "n", "N", "a", "m", "e", "=">>,
     port |->
         <<"?", "P", "o", "r", "t", "=">>,
     query_port |->
         <<"?", "Q", "u", "e", "r", "y", "P", "o", "r", "t", "=">>,
     rcon_port |->
         <<"?", "R", "C", "O", "N", "P", "o", "r", "t", "=">>,
     max_players |->
         <<"?", "M", "a", "x", "P", "l", "a", "y", "e", "r", "s", "=">>,
     admin_password |->
         <<"?", "S", "e", "r", "v", "e", "r", "A", "d", "m", "i", "n", "P",
           "a", "s", "s", "w", "o", "r", "d", "=">>,
     server_password |->
         <<"?", "S", "e", "r", "v", "e", "r", "P", "a", "s", "s", "w", "o",
           "r", "d", "=">>,
     log |->
         <<"-", "l", "o", "g">>,
     no_battleye |->
         <<"-", "N", "o", "B", "a", "t", "t", "l", "E", "y", "e">>,
     multi_home |->
         <<"-", "M", "u", "l", "t", "i", "H", "o", "m", "e", "=">>,
     cluster_id |->
         <<"-", "c", "l", "u", "s", "t", "e", "r", "i", "d", "=">>,
     cluster_dir |->
         <<"-", "C", "l", "u", "s", "t", "e", "r", "D", "i", "r", "O", "v",
           "e", "r", "r", "i", "d", "e", "=">>,
     mods |->
         <<"-", "m", "o", "d", "s", "=">>]

\* connection_url
ConnectionUrl(c) ==
    c.map_name \o Lit.listen
        \o Lit.session_name \o c.session_name
        \o Lit.port \o FormatInt(c.game_port)
        \o Lit.query_port \o FormatInt(c.query_port)
        \o Lit.rcon_port \o FormatInt(c.rcon_port)
        \o Lit.max_players \o FormatInt(c.max_players)
        \o Lit.admin_password \o c.admin_password
        \o (IF c.server_password.some
            THEN Lit.server_password \o c.server_password.v ELSE <<>>)

\* A faulty argument list: the mods come before the cluster arguments.
LaunchArgsModsFirst(c) ==
    <<ConnectionUrl(c), Lit.log, Lit.no_battleye>>
        \o (IF c.ip_address.some /\ c.ip_address.v # <<>>
            THEN <<Lit.multi_home \o c.ip_address.v>> ELSE <<>>)
        \o (IF c.mods.some /\ c.mods.v # <<>>
            THEN <<Lit.mods \o Join(c.mods.v, <<",">>)>> ELSE <<>>)
        \o (IF c.cluster_id.some /\ c.cluster_dir.some
               /\ c.cluster_id.v # <<>> /\ c.cluster_dir.v # <<>>
            THEN <<Lit.cluster_id \o c.cluster_id.v,
                   Lit.cluster_dir \o <<"\"">> \o c.cluster_dir.v \o <<"\"">>>>
            ELSE <<>>)
        \o (IF c.custom_args.some /\ c.custom_args.v # <<>>
            THEN SplitWhitespace(c.custom_args.v) ELSE <<>>)

\* args, as handed to Command::args.
LaunchArgs(c) ==
    <<ConnectionUrl(c), Lit.log, Lit.no_battleye>>
        \o (IF c.ip_address.some /\ c.ip_address.v # <<>>
            THEN <<Lit.multi_home \o c.ip_address.v>> ELSE <<>>)
        \o (IF c.cluster_id.some /\ c.cluster_dir.some
               /\ c.cluster_id.v # <<>> /\ c.cluster_dir.v # <<>>
            THEN <<Lit.cluster_id \o c.cluster_id.v,
                   Lit.cluster_dir \o <<"\"">> \o c.cluster_dir.v \o <<"\"">>>>
            ELSE <<>>)
        \o (IF c.mods.some /\ c.mods.v # <<>>
            THEN <<Lit.mods \o Join(c.mods.v, <<",">>)>> ELSE <<>>)
        \o (IF c.custom_args.some /\ c.custom_args.v # <<>>
            THEN SplitWhitespace(c.custom_args.v) ELSE <<>>)

\* The launch settings followed: the required ones fixed, each optional one
\* absent, empty and present.
LaunchSettings ==
    LET Passwords == {None, Some(<<>>), Some(<<"p", "w">>)}
        Addresses == {None, Some(<<>>), Some(<<"1", ".", "2">>)}
        ClusterIds == {None, Some(<<>>), Some(<<"c">>)}
        ClusterDirs == {None, Some(<<>>), Some(<<"D", ":", "/", "c">>)}
        ModLists ==
            {None, Some(<<>>), Some(<<<<"1", "1">>>>),
             Some(<<<<"1", "1">>, <<"2", "2">>>>)}
        CustomArgs ==
            {None, Some(<<>>), Some(<<" ">>), Some(<<"-", "a">>),
             Some(<<" ", "-", "a", " ", "\t", "-", "b", " ">>)}
    IN  {[map_name |-> <<"T", "h", "e", "I", "s", "l", "a", "n", "d", "_", "W", "P">>,
          session_name |-> <<"M", "y", " ", "A", "r", "k">>,
          game_port |-> 7777, query_port |-> 27015, rcon_port |-> 27020,
          max_players |-> 70,
          admin_password |-> <<"a", "d", "m">>,
          server_password |-> pw, ip_address |-> ip, cluster_id |-> cid,
          cluster_dir |-> cdir, mods |-> ml, custom_args |-> ca] :
             pw \in Passwords, ip \in Addresses, cid \in ClusterIds,
             cdir \in ClusterDirs, ml \in ModLists, ca \in CustomArgs}

\* start_server is called with the settings c.
LaunchRequested(c) ==
    /\ launch.st = "none"
    /\ launch' = [st |-> "requested", settings |-> c, args |-> <<>>]
    /\ UNCHANGED <<pmVars, sessions, guardVars, rconVars, scan, parsed, merged>>

\* start_server builds the argument list.
LaunchBuilt ==
    /\ launch.st = "requested"
    /\ launch' = [launch EXCEPT !.st = "built", !.args = LaunchArgs(launch.settings)]
    /\ UNCHANGED <<pmVars, sessions, guardVars, rconVars, scan, parsed, merged>>

\* -------------------------------------------------------------- IniParser
GlobalName ==
    <<"_", "_", "g", "l", "o", "b", "a", "l", "_", "_">>
CRLF == <<"\r", "\n">>

\* str::starts_with(c), str::ends_with(c)
StartsWith(s, c) == s # <<>> /\ Head(s) = c
EndsWith(s, c) == s # <<>> /\ s[Len(s)] = c

\* BTreeMap::new and BTreeMap::insert
EmptyMap == [x \in {} |-> <<>>]
Put(f, k, v) == [x \in DOMAIN f \cup {k} |-> IF x = k THEN v ELSE f[x]]

\* The body of parse's loop for one line: acc holds sections, section_order
\* and current_section.
ParseIniLine(acc, raw) ==
    LET line == Trim(raw)
    IN  IF line = <<>> \/ StartsWith(line, ";") \/ StartsWith(line, "#")
        THEN acc
        ELSE IF StartsWith(line, "[") /\ EndsWith(line, "]")
        THEN LET name == SubSeq(line, 2, Len(line) - 1)
             IN  IF name \in DOMAIN acc.sections
                 THEN [acc EXCEPT !.current = name]
                 ELSE [sections |-> Put(acc.sections, name, EmptyMap),
                       order |-> Append(acc.order, name),
                       current |-> name]
        ELSE IF Find(line, "=") # 0
        THEN LET eq == Find(line, "=")
                 key == Trim(SubSeq(line, 1, eq - 1))
                 value == Trim(SubSeq(line, eq + 1, Len(line)))
             IN  [acc EXCEPT !.sections[acc.current] = Put(@, key, value)]
        ELSE acc

RECURSIVE ParseIniLines(_, _)
ParseIniLines(acc, lines) ==
    IF lines = <<>> THEN acc
    ELSE ParseIniLines(ParseIniLine(acc, Head(lines)), Tail(lines))

\* IniParser::parse
IniParse(content) ==
    ParseIniLines([sections |-> Put(EmptyMap, GlobalName, EmptyMap),
                   order |-> <<GlobalName>>,
                   current |-> GlobalName],
                  SplitLines(content))

\* The order of the characters followed, as bytes.
ByteOrder ==
    <<"\t", "\n", "\r", " ", "#", "1", "2", "3", ";", "=", "[", "]", "_",
      "a", "b", "c", "g", "k", "l", "o", "s", "t", "u", "v", "w", "x">>
\* Ord for String: the order in which a BTreeMap iterates its keys.
RECURSIVE StrLess(_, _)
StrLess(a, b) ==
    IF b = <<>> THEN FALSE
    ELSE IF a = <<>> THEN TRUE
    ELSE IF Head(a) = Head(b) THEN StrLess(Tail(a), Tail(b))
    ELSE LET ByteOf(c) == CHOOSE k \in DOMAIN ByteOrder : ByteOrder[k] = c
         IN  ByteOf(Head(a)) < ByteOf(Head(b))

RECURSIVE SortedKeys(_)
SortedKeys(S) ==
    IF S = {} THEN <<>>
    ELSE LET m == CHOOSE x \in S : \A y \in S \ {x} : StrLess(x, y)
         IN  <<m>> \o SortedKeys(S \ {m})

\* The "key=value\r\n" lines of a section, in key order.
RECURSIVE SerializeValues(_, _)
SerializeValues(values, keys) ==
    IF keys = <<>> THEN <<>>
    ELSE Head(keys) \o <<"=">> \o values[Head(keys)] \o CRLF
             \o SerializeValues(values, Tail(keys))

\* The loop of serialize over section_order, result being the text so far.
RECURSIVE SerializeFrom(_, _, _)
SerializeFrom(sections, order, result) ==
    IF order = <<>> THEN result
    ELSE LET name == Head(order)
             header == IF name # GlobalName
                       THEN (IF result # <<>> THEN CRLF ELSE <<>>)
                                \o <<"[">> \o name \o <<"]">> \o CRLF
                       ELSE <<>>
         IN  IF name \in DOMAIN sections /\ DOMAIN sections[name] # {}
             THEN SerializeFrom(sections, Tail(order),
                      result \o header
                          \o SerializeValues(sections[name],
                                             SortedKeys(DOMAIN sections[name])))
             ELSE SerializeFrom(sections, Tail(order), result)

\* IniParser::serialize
IniSerialize(sections, order) == SerializeFrom(sections, order, <<>>)

\* A faulty merge of one section: the base value wins on a conflict.
MergeValuesBaseWins(base_section, section_values) ==
    [k \in DOMAIN base_section \cup DOMAIN section_values |->
        IF k \in DOMAIN base_section THEN base_section[k] ELSE section_values[k]]

\* for (key, value) in section_values { base_section.insert(key, value); }
MergeValues(base_section, section_values) ==
    [k \in DOMAIN base_section \cup DOMAIN section_values |->
        IF k \in DOMAIN section_values THEN section_values[k] ELSE base_section[k]]

\* The sections of update_order that section_order lacks, in order.
RECURSIVE NewSections(_, _)
NewSections(section_order, update_order) ==
    IF update_order = <<>> THEN <<>>
    ELSE LET have == {section_order[k] : k \in DOMAIN section_order}
         IN  IF Head(update_order) \in have
             THEN NewSections(section_order, Tail(update_order))
             ELSE <<Head(update_order)>>
                      \o NewSections(Append(section_order, Head(update_order)),
                                     Tail(update_order))

\* IniParser::merge
IniMerge(base, updates) ==
    LET b == IniParse(base)
        u == IniParse(updates)
        section_order == b.order \o NewSections(b.order, u.order)
        base_sections ==
            [s \in DOMAIN b.sections \cup DOMAIN u.sections |->
                IF s \notin DOMAIN u.sections THEN b.sections[s]
                ELSE IF s \in DOMAIN b.sections
                THEN MergeValues(b.sections[s], u.sections[s])
                ELSE u.sections[s]]
    IN  IniSerialize(base_sections, section_order)

\* The documents followed: up to MaxBaseLines lines of a base file and up to
\* MaxUpdateLines lines of an update, every line ended by a line feed.
BaseLines ==
    {<<"[", "s", "]">>, <<"[", "t", "]">>, <<"a", "=", "1">>,
     <<"b", "[", "1", "]", "=", "1">>, <<" ", "a", " ", "=", " ", "3", " ">>,
     <<";", "c", "=", "1">>, <<"x">>}
UpdateLines ==
    {<<"[", "s", "]">>, <<"[", "u", "]">>, <<"a", "=", "2">>,
     <<"c", "=", "[", "2", "]">>, <<"[", "k", "]", "=", "w">>}
MaxBaseLines == 3
MaxUpdateLines == 2

RECURSIVE Documents(_, _)
Documents(lines, n) ==
    IF n = 0 THEN {<<>>}
    ELSE {<<>>} \cup {l \o <<"\n">> \o d : l \in lines, d \in Documents(lines, n - 1)}

\* merge is called with two documents.
MergeRequested(base, updates) ==
    /\ merged.st = "none"
    /\ merged' = [st |-> "requested", base |-> base, updates |-> updates,
                  out |-> <<>>]
    /\ UNCHANGED <<pmVars, sessions, guardVars, rconVars, scan, parsed, launch>>

\* merge returns the serialized document.
MergeReturned ==
    /\ merged.st = "requested"
    /\ merged' = [merged EXCEPT !.st = "merged",
                                !.out = IniMerge(merged.base, merged.updates)]
    /\ UNCHANGED <<pmVars, sessions, guardVars, rconVars, scan, parsed, launch>>

\* -------------------------------------------------------- shutdown_server
ShutdownCall(t, id) ==
    /\ t \in Drivers
    /\ Call(t, "shutdown", id, "sd_connect")
    /\ UNCHANGED <<registry, osVars, flagVars, lock, monVars, events, svcVars,
                   logVars, watchVars, removedBy, passVars>>

\* The caller of shutdown_server holds the RconService it hands over: it has
\* taken the RconState mutex (rcon_state.0.lock().await) and keeps the guard
\* until shutdown_server has returned.  Then rcon.connect: Ok stores the
\* session under the connections mutex, Err (unreachable port, bad password)
\* skips the RCON steps.
ShutdownConnect(t) ==
    /\ pc[t] = "sd_connect"
    /\ rLock = "free" /\ connLock = "free"
    /\ rLock' = t
    /\ \E connected \in BOOLEAN :
         IF connected
         THEN /\ sessions' = ConnectSessions(sessions, arg[t], t, TRUE)
              /\ loc' = [loc EXCEPT ![t].conn = "ok"]
              /\ pc' = [pc EXCEPT ![t] = "sd_save"]
         ELSE /\ loc' = [loc EXCEPT ![t].conn = "failed"]
              /\ pc' = [pc EXCEPT ![t] = "sd_final"]
              /\ UNCHANGED sessions
    /\ UNCHANGED <<registry, osVars, flagVars, lock, monVars, op, arg, rv,
                   seen, clean, events, guardVars, connLock, rpc, rop, rarg,
                   rret, rsent, fnVars, logVars, watchVars, removedBy,
                   passVars>>

\* A faulty shutdown_server: it asks the server to exit before the save.
ShutdownCommandListExitFirst == <<"DoExit", "SaveWorld">>

\* The commands shutdown_server issues once connected: rcon.save_world(),
\* then rcon.send_command("DoExit").
ShutdownCommandList == <<"SaveWorld", "DoExit">>

\* A faulty shutdown_server: the guard of the connections mutex taken for the
\* last command is kept while the registry is polled.
ShutdownCommandsKeepGuard(t) ==
    /\ pc[t] = "sd_save"
    /\ pc' = [pc EXCEPT ![t] = "sd_poll"]
    /\ loc' = [loc EXCEPT ![t].n = 0, ![t].cmds = <<"SaveWorld", "DoExit">>]
    /\ connLock' = t
    /\ UNCHANGED <<registry, osVars, flagVars, lock, monVars, op, arg, rv, seen,
                   clean, events, sessions, guardVars, rLock, rpc, rop, rarg,
                   rret, rsent, fnVars, logVars, watchVars, removedBy,
                   passVars>>

\* rcon.save_world, the pause and rcon.send_command("DoExit"): both results
\* are ignored.
ShutdownCommands(t) ==
    /\ pc[t] = "sd_save"
    /\ pc' = [pc EXCEPT ![t] = "sd_poll"]
    /\ loc' = [loc EXCEPT ![t].n = 0, ![t].cmds = ShutdownCommandList]
    /\ UNCHANGED <<registry, osVars, flagVars, lock, monVars, op, arg, rv, seen,
                   clean, events, svcVars, logVars, watchVars, removedBy, passVars>>

\* One evaluation of the wait loop's condition: is_running(id) && attempts < N.
ShutdownPoll(t) ==
    /\ pc[t] = "sd_poll"
    /\ lock = "free"
    /\ \E out \in TryWaitOf(arg[t]) :
           /\ IsRunningEffect(arg[t], out)
           /\ IF IsRunningResult(out) /\ loc[t].n < MaxExitPoll
              THEN /\ loc' = [loc EXCEPT ![t].n = @ + 1, ![t].polls = @ + 1,
                                         ![t].last = "true"]
                   /\ UNCHANGED pc
              ELSE /\ pc' = [pc EXCEPT ![t] = "sd_final"]
                   /\ loc' = [loc EXCEPT ![t].polls = @ + 1,
                                         ![t].last = IF IsRunningResult(out)
                                                     THEN "true" ELSE "false"]
    /\ UNCHANGED <<osVars, lock, monVars, op, arg, rv, seen, clean, svcVars,
                   logVars, watchVars>>

\* if self.is_running(id) { self.stop_server(id)? }  Ok(())
ShutdownFinal(t) ==
    /\ pc[t] = "sd_final"
    /\ lock = "free"
    /\ \E out \in TryWaitOf(arg[t]) :
           /\ IsRunningEffect(arg[t], out)
           /\ loc' = [loc EXCEPT ![t].last = IF IsRunningResult(out)
                                              THEN "true" ELSE "false"]
           /\ IF IsRunningResult(out)
              THEN pc' = [pc EXCEPT ![t] = "sp_remove"] /\ UNCHANGED rv
              ELSE Finish(t, "Ok")
    /\ UNCHANGED <<osVars, lock, monVars, op, arg, seen, clean, svcVars,
                   logVars, watchVars>>

\* --------------------------------------------------------- restart_server
RestartCall(t, id) ==
    /\ t \in Drivers
    /\ Cardinality(Unspawned) > Cardinality(WillSpawn)
    /\ Call(t, "restart", id, "rs_isrun")
    /\ UNCHANGED <<registry, osVars, flagVars, lock, monVars, events, svcVars,
                   logVars, watchVars, removedBy, passVars>>

\* if self.is_running(id) { self.stop_server(id)? }, then the pause and
\* start_server.
RestartCheck(t) ==
    /\ pc[t] = "rs_isrun"
    /\ lock = "free"
    /\ \E out \in TryWaitOf(arg[t]) :
           /\ IsRunningEffect(arg[t], out)
           /\ pc' = [pc EXCEPT ![t] =
                        IF IsRunningResult(out) THEN "sp_remove" ELSE "st_check"]
    /\ UNCHANGED <<osVars, lock, monVars, op, arg, loc, rv, seen, clean, svcVars,
                   logVars, watchVars>>

\* ------------------------------------------------------- GuardianService
\* The Tauri commands of guardian.rs.  Each command holds the GuardianState
\* mutex from guardian.0.lock().await to its return; the service's own maps
\* are behind tokio mutexes, which are not reentrant.
GuardianCommands ==
    {"register_server_pid", "set_auto_restart", "get_server_health",
     "get_all_server_health", "get_crash_log"}

\* The first step of a command's service method.
GuardianEntry(o) ==
    CASE o = "register_server_pid" -> "register"
      [] o = "set_auto_restart" -> "set_auto"
      [] o = "get_server_health" -> "health"
      [] o = "get_all_server_health" -> "all_lock"
      [] o = "get_crash_log" -> "crash_log"

\* A faulty read of the preference: an id without a setting counts as enabled.
is_auto_restart_enabled_or_true(i) == auto_restart_enabled[i] # "off"

\* is_auto_restart_enabled: *settings.get(&server_id).unwrap_or(&false); the
\* health snapshot reads the preference with the same expression.
is_auto_restart_enabled(i) == auto_restart_enabled[i] = "on"

\* ServerHealth, without the clock and the resource figures.
Health(i, alive) ==
    [server_id |-> i, is_alive |-> alive, crash_count |-> crash_counts[i],
     auto_restart_enabled |-> is_auto_restart_enabled(i)]

\* A command is invoked on task g.
GuardianCall(g, o, i) ==
    /\ gpc[g] = "idle"
    /\ gpc' = [gpc EXCEPT ![g] = "enter"]
    /\ gop' = [gop EXCEPT ![g] = o]
    /\ garg' = [garg EXCEPT ![g] = i]
    /\ UNCHANGED <<restVars, server_pids, auto_restart_enabled, crash_counts,
                   crash_log, gLock, pidsLock, gkeys, ghealth>>

\* let service = guardian.0.lock().await
GuardianEnter(g) ==
    /\ gpc[g] = "enter"
    /\ gLock = "free"
    /\ gLock' = g
    /\ gpc' = [gpc EXCEPT ![g] = GuardianEntry(gop[g])]
    /\ UNCHANGED <<restVars, server_pids, auto_restart_enabled, crash_counts,
                   crash_log, pidsLock, gop, garg, gkeys, ghealth>>

\* register_server: pids.insert(server_id, pid) under the server_pids lock.
register_server(g) ==
    /\ gpc[g] = "register"
    /\ pidsLock = "free"
    /\ \E pid \in Pids : server_pids' = [server_pids EXCEPT ![garg[g]] = pid]
    /\ gpc' = [gpc EXCEPT ![g] = "ret"]
    /\ UNCHANGED <<restVars, auto_restart_enabled, crash_counts, crash_log, gLock,
                   pidsLock, gop, garg, gkeys, ghealth>>

\* set_auto_restart: settings.insert(server_id, enabled).
set_auto_restart(g) ==
    /\ gpc[g] = "set_auto"
    /\ \E enabled \in {"on", "off"} :
           auto_restart_enabled' = [auto_restart_enabled EXCEPT ![garg[g]] = enabled]
    /\ gpc' = [gpc EXCEPT ![g] = "ret"]
    /\ UNCHANGED <<restVars, server_pids, crash_counts, crash_log, gLock, pidsLock,
                   gop, garg, gkeys, ghealth>>

\* get_server_health: self.server_pids.lock().await, then the snapshot of the
\* registered pid (None when the id has none); the lock is released on return.
\* Called by the command and, per key, by get_all_health.
get_server_health(g) ==
    /\ gpc[g] = "health"
    /\ pidsLock = "free"
    /\ \E alive \in BOOLEAN :
         LET found == IF server_pids[garg[g]] = 0 THEN <<>>
                      ELSE <<Health(garg[g], alive)>>
         IN  IF gop[g] = "get_all_server_health"
             THEN /\ ghealth' = [ghealth EXCEPT ![g] = @ \o found]
                  /\ gpc' = [gpc EXCEPT ![g] = "all_loop"]
             ELSE /\ ghealth' = [ghealth EXCEPT ![g] = found]
                  /\ gpc' = [gpc EXCEPT ![g] = "ret"]
    /\ UNCHANGED <<restVars, server_pids, auto_restart_enabled, crash_counts,
                   crash_log, gLock, pidsLock, gop, garg, gkeys>>

\* get_all_health: let pids = self.server_pids.lock().await; the guard lives to
\* the end of the function.
get_all_health_lock(g) ==
    /\ gpc[g] = "all_lock"
    /\ pidsLock = "free"
    /\ pidsLock' = g
    /\ gkeys' = [gkeys EXCEPT ![g] = {i \in GuardedIds : server_pids[i] # 0}]
    /\ ghealth' = [ghealth EXCEPT ![g] = <<>>]
    /\ gpc' = [gpc EXCEPT ![g] = "all_loop"]
    /\ UNCHANGED <<restVars, server_pids, auto_restart_enabled, crash_counts,
                   crash_log, gLock, gop, garg>>

\* get_all_health: for server_id in pids.keys() { get_server_health(..).await },
\* in the map's order; after the last key the vector is returned and the guard
\* dropped.
get_all_health_loop(g) ==
    /\ gpc[g] = "all_loop"
    /\ IF gkeys[g] = {}
       THEN /\ pidsLock' = "free"
            /\ gpc' = [gpc EXCEPT ![g] = "ret"]
            /\ UNCHANGED <<garg, gkeys>>
       ELSE /\ \E k \in gkeys[g] :
                   /\ garg' = [garg EXCEPT ![g] = k]
                   /\ gkeys' = [gkeys EXCEPT ![g] = @ \ {k}]
            /\ gpc' = [gpc EXCEPT ![g] = "health"]
            /\ UNCHANGED pidsLock
    /\ UNCHANGED <<restVars, server_pids, auto_restart_enabled, crash_counts,
                   crash_log, gLock, gop, ghealth>>

\* get_crash_log: log.clone().
get_crash_log(g) ==
    /\ gpc[g] = "crash_log"
    /\ gpc' = [gpc EXCEPT ![g] = "ret"]
    /\ UNCHANGED <<restVars, server_pids, auto_restart_enabled, crash_counts,
                   crash_log, gLock, pidsLock, gop, garg, gkeys, ghealth>>

\* The command returns: the GuardianState guard is dropped.
GuardianReturn(g) ==
    /\ gpc[g] = "ret"
    /\ gLock' = "free"
    /\ gpc' = [gpc EXCEPT ![g] = "idle"]
    /\ gop' = [gop EXCEPT ![g] = "none"]
    /\ garg' = [garg EXCEPT ![g] = 0]
    /\ ghealth' = [ghealth EXCEPT ![g] = <<>>]
    /\ UNCHANGED <<restVars, server_pids, auto_restart_enabled, crash_counts,
                   crash_log, pidsLock, gkeys>>

\* The number of log_crash calls made so far: each increments one counter.
RECURSIVE CrashTotal(_, _)
CrashTotal(counts, S) ==
    IF S = {} THEN 0
    ELSE LET i == CHOOSE j \in S : TRUE
         IN  counts[i] + CrashTotal(counts, S \ {i})

\* A faulty log_crash: over the cap it drops the event it has just pushed.
CrashLogKeepOldest(l) ==
    IF Len(l) > CrashLogCap THEN SubSeq(l, 1, CrashLogCap) ELSE l

\* if log.len() > 100 { log.remove(0); }
CrashLogKeep(l) ==
    IF Len(l) > CrashLogCap THEN Tail(l) ELSE l

\* A faulty log_crash: the counter stops at the capacity of the log.
CrashCountStopsAtCap(counts, i) ==
    [counts EXCEPT ![i] = Min(@ + 1, CrashLogCap)]

\* *counts.entry(server_id).or_insert(0) += 1
CrashCount(counts, i) == [counts EXCEPT ![i] = @ + 1]

\* log_crash: an event pushed to crash_log, the oldest one removed over the
\* cap, and the id's counter incremented.  seq (history) numbers the calls.
\* It is #[allow(dead_code)]: no command of lib.rs's invoke_handler and no
\* service calls it, so it is a step of SpecCrashLog alone, where a caller of
\* the method is assumed.
log_crash(i, restarted) ==
    /\ crash_log' = CrashLogKeep(Append(crash_log,
                         [server_id |-> i, was_auto_restarted |-> restarted,
                          seq |-> CrashTotal(crash_counts, GuardedIds) + 1]))
    /\ crash_counts' = CrashCount(crash_counts, i)
    /\ UNCHANGED <<restVars, server_pids, auto_restart_enabled, gLock, pidsLock,
                   gpc, gop, garg, gkeys, ghealth>>

\* A step of the command running on task g.
GuardianStep(g) ==
    \/ GuardianEnter(g)
    \/ register_server(g)
    \/ set_auto_restart(g)
    \/ get_server_health(g)
    \/ get_all_health_lock(g)
    \/ get_all_health_loop(g)
    \/ get_crash_log(g)
    \/ GuardianReturn(g)

\* ------------------------------------------------------------------ system
\* The caller threads, the monitor thread and the server processes: the
\* supervisor without the log watchers, which read only the stop flags and
\* write only the online flags and "online" notifications.
Next ==
    \/ \E t \in Threads, i \in Ids : StartCall(t, i)
    \/ \E t \in Threads, i \in Ids : StopCall(t, i)
    \/ \E t \in Threads, i \in Ids : IsRunningCall(t, i)
    \/ \E t \in Threads, i \in Ids : ShutdownCall(t, i)
    \/ \E t \in Threads, i \in Ids : RestartCall(t, i)
    \/ \E t \in Threads : StartCheck(t)
    \/ \E t \in Threads : StartPoll(t)
    \/ \E t \in Threads : StartEmit(t)
    \/ \E t \in Threads : StartInsert(t)
    \/ \E t \in Threads : StopRemove(t)
    \/ \E t \in Threads : StopWait(t)
    \/ \E t \in Threads : IsRunning(t)
    \/ \E t \in Threads : ShutdownConnect(t)
    \/ \E t \in Threads : ShutdownCommands(t)
    \/ \E t \in Threads : ShutdownPoll(t)
    \/ \E t \in Threads : ShutdownFinal(t)
    \/ \E t \in Threads : RestartCheck(t)
    \/ \E t \in Threads : Return(t)
    \/ MonitorPoll
    \/ MonitorRemove
    \/ \E p \in Procs : ProcExit(p)

Spec == Init /\ [][Next]_vars

\* The log watchers at work: one caller thread starts and stops the server
\* while the server processes write their log and the watchers tail it.
NextWatch ==
    \/ \E t \in Drivers, i \in Ids : StartCall(t, i)
    \/ \E t \in Drivers, i \in Ids : StopCall(t, i)
    \/ \E t \in Drivers : StartCheck(t)
    \/ \E t \in Drivers : StartPoll(t)
    \/ \E t \in Drivers : StartEmit(t)
    \/ \E t \in Drivers : StartInsert(t)
    \/ \E t \in Drivers : StopRemove(t)
    \/ \E t \in Drivers : StopWait(t)
    \/ \E t \in Drivers : Return(t)
    \/ MonitorPoll
    \/ MonitorRemove
    \/ \E p \in Procs : ProcExit(p)
    \/ \E p \in Procs : ProcLog(p)
    \/ \E p \in Procs : WatchOpen(p)
    \/ \E p \in Procs : WatchRead(p)

SpecWatch == Init /\ [][NextWatch]_vars

\* The log watchers step by step beside the calls that end a watch: one caller
\* thread starts, stops and queries the server, the monitor runs, the server
\* processes write their log.
NextOnline ==
    \/ \E t \in Drivers, i \in Ids : StartCall(t, i)
    \/ \E t \in Drivers, i \in Ids : StopCall(t, i)
    \/ \E t \in Drivers, i \in Ids : IsRunningCall(t, i)
    \/ \E t \in Drivers : StartCheck(t)
    \/ \E t \in Drivers : StartPoll(t)
    \/ \E t \in Drivers : StartEmit(t)
    \/ \E t \in Drivers : StartInsert(t)
    \/ \E t \in Drivers : StopRemove(t)
    \/ \E t \in Drivers : StopWait(t)
    \/ \E t \in Drivers : IsRunning(t)
    \/ \E t \in Drivers : Return(t)
    \/ MonitorPoll
    \/ MonitorRemove
    \/ \E p \in Procs : ProcExit(p)
    \/ \E p \in Procs : ProcLog(p)
    \/ \E p \in Procs : WatchOpen(p)
    \/ \E p \in Procs : WatchLoad(p)
    \/ \E p \in Procs : WatchLine(p)

SpecOnline == Init /\ [][NextOnline]_vars

\* A log file that goes bad under its watcher: one caller thread starts and
\* stops the server, the processes write their log, the file may become
\* unreadable.  The watcher threads are OS threads that keep being scheduled.
NextTail ==
    \/ \E t \in Drivers, i \in Ids : StartCall(t, i)
    \/ \E t \in Drivers, i \in Ids : StopCall(t, i)
    \/ \E t \in Drivers : StartCheck(t)
    \/ \E t \in Drivers : StartPoll(t)
    \/ \E t \in Drivers : StartEmit(t)
    \/ \E t \in Drivers : StartInsert(t)
    \/ \E t \in Drivers : StopRemove(t)
    \/ \E t \in Drivers : StopWait(t)
    \/ \E t \in Drivers : Return(t)
    \/ \E p \in Procs : ProcExit(p)
    \/ \E p \in Procs : ProcLog(p)
    \/ \E p \in Procs : WatchOpen(p)
    \/ \E p \in Procs : WatchRead(p)
    \/ \E i \in Ids : LogBreak(i)

SpecTail ==
    /\ Init /\ [][NextTail]_vars
    /\ \A p \in Procs : WF_vars(WatchOpen(p)) /\ WF_vars(WatchRead(p))

\* The Guardian's commands, run by the async runtime, which keeps polling every
\* task that can make progress.
NextGuardian ==
    \/ \E g \in Tasks, o \in GuardianCommands, i \in GuardedIds : GuardianCall(g, o, i)
    \/ \E g \in Tasks : GuardianEnter(g)
    \/ \E g \in Tasks : register_server(g)
    \/ \E g \in Tasks : set_auto_restart(g)
    \/ \E g \in Tasks : get_server_health(g)
    \/ \E g \in Tasks : get_all_health_lock(g)
    \/ \E g \in Tasks : get_all_health_loop(g)
    \/ \E g \in Tasks : get_crash_log(g)
    \/ \E g \in Tasks : GuardianReturn(g)

SpecGuardian ==
    /\ Init /\ [][NextGuardian]_vars
    /\ \A g \in Tasks : WF_vars(GuardianStep(g))

\* A caller of GuardianService::log_crash, one call at a time.
NextCrashLog ==
    \E i \in GuardedIds, restarted \in BOOLEAN :
        /\ CrashTotal(crash_counts, GuardedIds) < MaxCrashes
        /\ log_crash(i, restarted)

SpecCrashLog == Init /\ [][NextCrashLog]_vars

\* The auto-restart preference among the other Guardian state: one task runs
\* the commands that register, set the preference and read the health, while
\* crashes are logged.
NextAutoRestart ==
    \/ \E o \in {"register_server_pid", "set_auto_restart", "get_server_health"},
          i \in GuardedIds : GuardianCall("g1", o, i)
    \/ GuardianEnter("g1")
    \/ register_server("g1")
    \/ set_auto_restart("g1")
    \/ get_server_health("g1")
    \/ GuardianReturn("g1")
    \/ \E i \in GuardedIds, restarted \in BOOLEAN :
           /\ CrashTotal(crash_counts, GuardedIds) < MaxLoggedBeside
           /\ log_crash(i, restarted)

SpecAutoRestart == Init /\ [][NextAutoRestart]_vars

\* The marker check of the log watcher, line by line.
NextMarker ==
    \/ \E text \in Lines, online \in BOOLEAN : LineAppended(text, online)
    \/ LineChecked

SpecMarker == Init /\ [][NextMarker]_vars

\* parse_player_list on one response.
NextPlayers ==
    \/ \E data \in Responses : ResponseReceived(data)
    \/ ResponseParsed

SpecPlayers == Init /\ [][NextPlayers]_vars

\* The argument list of start_server for one set of launch settings.
NextLaunch ==
    \/ \E c \in LaunchSettings : LaunchRequested(c)
    \/ LaunchBuilt

SpecLaunch == Init /\ [][NextLaunch]_vars

\* IniParser::merge on one pair of documents.
NextIni ==
    \/ \E base \in Documents(BaseLines, MaxBaseLines),
          updates \in Documents(UpdateLines, MaxUpdateLines) :
              MergeRequested(base, updates)
    \/ MergeReturned

SpecIni == Init /\ [][NextIni]_vars

\* A step of the RCON command running on task r.
RconStep(r) ==
    \/ RconEnter(r)
    \/ RconConnect(r)
    \/ RconDisconnect(r)
    \/ RconSend(r)
    \/ RconResponse(r)
    \/ RconReturn(r)

\* The RCON commands, run by the async runtime like the Guardian's.
NextRcon ==
    \/ \E r \in RconTasks, o \in RconMethods, i \in RconIds : RconCall(r, o, i)
    \/ \E r \in RconTasks : RconEnter(r)
    \/ \E r \in RconTasks : RconConnect(r)
    \/ \E r \in RconTasks : RconDisconnect(r)
    \/ \E r \in RconTasks : RconSend(r)
    \/ \E r \in RconTasks : RconResponse(r)
    \/ \E r \in RconTasks : RconReturn(r)

SpecRcon ==
    /\ Init /\ [][NextRcon]_vars
    /\ \A r \in RconTasks : WF_vars(RconStep(r))

\* The session map beside the supervisor: one caller thread starts, stops and
\* shuts down the server, whose process may exit, while one task runs the
\* connect, disconnect and send_command commands.
NextSessions ==
    \/ \E t \in Drivers, i \in Ids : StartCall(t, i)
    \/ \E t \in Drivers, i \in Ids : StopCall(t, i)
    \/ \E t \in Drivers, i \in Ids : ShutdownCall(t, i)
    \/ \E t \in Drivers : StartCheck(t)
    \/ \E t \in Drivers : StartPoll(t)
    \/ \E t \in Drivers : StartEmit(t)
    \/ \E t \in Drivers : StartInsert(t)
    \/ \E t \in Drivers : StopRemove(t)
    \/ \E t \in Drivers : StopWait(t)
    \/ \E t \in Drivers : ShutdownConnect(t)
    \/ \E t \in Drivers : ShutdownCommands(t)
    \/ \E t \in Drivers : ShutdownPoll(t)
    \/ \E t \in Drivers : ShutdownFinal(t)
    \/ \E t \in Drivers : Return(t)
    \/ \E p \in Procs : ProcExit(p)
    \/ \E o \in {"connect", "disconnect", "send_command"}, i \in RconIds :
           RconCall("r1", o, i)
    \/ RconEnter("r1")
    \/ RconConnect("r1")
    \/ RconDisconnect("r1")
    \/ RconSend("r1")
    \/ RconResponse("r1")
    \/ RconReturn("r1")

SpecSessions == Init /\ [][NextSessions]_vars

\* The three mutexes together: one caller thread runs every operation of the
\* supervisor, a second one stops and queries beside it, the monitor runs,
\* the process may exit, and one task runs the RCON commands of the same id.
NextLocks ==
    \/ \E t \in Drivers, i \in Ids : StartCall(t, i)
    \/ \E t \in Threads, i \in Ids : StopCall(t, i)
    \/ \E t \in Threads, i \in Ids : IsRunningCall(t, i)
    \/ \E t \in Drivers, i \in Ids : ShutdownCall(t, i)
    \/ \E t \in Drivers, i \in Ids : RestartCall(t, i)
    \/ \E t \in Threads : StartCheck(t)
    \/ \E t \in Threads : StartPoll(t)
    \/ \E t \in Threads : StartEmit(t)
    \/ \E t \in Threads : StartInsert(t)
    \/ \E t \in Threads : StopRemove(t)
    \/ \E t \in Threads : StopWait(t)
    \/ \E t \in Threads : IsRunning(t)
    \/ \E t \in Threads : ShutdownConnect(t)
    \/ \E t \in Threads : ShutdownCommands(t)
    \/ \E t \in Threads : ShutdownPoll(t)
    \/ \E t \in Threads : ShutdownFinal(t)
    \/ \E t \in Threads : RestartCheck(t)
    \/ \E t \in Threads : Return(t)
    \/ MonitorPoll
    \/ MonitorRemove
    \/ \E p \in Procs : ProcExit(p)
    \/ \E o \in {"connect", "disconnect", "send_command"}, i \in Ids :
           RconCall("r1", o, i)
    \/ RconEnter("r1")
    \/ RconConnect("r1")
    \/ RconDisconnect("r1")
    \/ RconSend("r1")
    \/ RconResponse("r1")
    \/ RconReturn("r1")

SpecLocks == Init /\ [][NextLocks]_vars

\* ------------------------------------------------------------------ claims
\* The notifications emitted about process p, by position in events.
StoppedAt(p) ==
    {k \in 1..Len(events) : events[k].status = "stopped" /\ events[k].proc = p}
RunningAt(p) ==
    {k \in 1..Len(events) : events[k].status = "running" /\ events[k].proc = p}
StoppedBy(p) == {events[k].by : k \in StoppedAt(p)}

\* Steps of the caller threads that the claims speak about.
IsRunningReturns(t) == pc[t] = "ir_check" /\ pc'[t] = "ret"
StopReturns(t) ==
    op[t] = "stop" /\ pc[t] \in {"sp_remove", "sp_wait"} /\ pc'[t] = "ret"
InsertStep(t, i) == pc[t] = "st_insert" /\ pc'[t] = "ret" /\ arg[t] = i
StartErrors ==
    {"ExecutableNotFound", "GamePortInUse", "QueryPortInUse", "RconPortInUse"}

\* C1 as stated: the entry of a process that exited is gone once two monitor
\* passes have completed since the exit, whatever the liveness checks return.
C1_RemovedWithinTwoPasses ==
    \A i \in Ids :
        registry[i] # 0 /\ procState[registry[i]] = "exited"
            => passes[registry[i]] < 2

\* C1 amended: the entry of a process that exited is gone once two monitor
\* passes whose liveness check of the entry did not fail have completed since
\* the exit; an entry removed by the monitor or by is_running never comes back
\* and exactly one stopped notification was emitted for it.
C1_RemovedWithinTwoCheckedPasses ==
    /\ \A i \in Ids :
           registry[i] # 0 /\ procState[registry[i]] = "exited"
               => okPasses[registry[i]] < 2
    /\ \A p \in Procs :
           removedBy[p] \cap {"monitor", "is_running"} # {}
               => /\ \A i \in Ids : registry[i] # p
                  /\ Cardinality(StoppedAt(p)) = 1

\* C1 witness: a process exited on its own and the monitor removed its entry.
C1_Witness ==
    \E p \in Procs :
        /\ procState[p] = "exited"
        /\ removedBy[p] = {"monitor"}
        /\ Cardinality(StoppedAt(p)) = 1

\* C2: for every process, at most one of stop, is_running and the monitor took
\* its entry out of the registry, only that one emitted a stopped notification
\* for it, and it emitted exactly one.
C2_OneRemoverOneNotification ==
    \A p \in Procs :
        /\ Cardinality(removedBy[p]) <= 1
        /\ StoppedBy(p) \subseteq removedBy[p]
        /\ Cardinality(StoppedAt(p)) <= 1
        /\ removedBy[p] \cap {"monitor", "is_running"} # {}
               => Cardinality(StoppedAt(p)) = 1
        /\ (removedBy[p] = {"stop"} /\ \A t \in Threads : loc[t].p # p)
               => Cardinality(StoppedAt(p)) = 1

\* C2 witness: in one run stop removed the entry of one process and the monitor
\* that of another, each with its own single stopped notification.
C2_Witness ==
    \E p, q \in Procs :
        /\ removedBy[p] = {"stop"} /\ StoppedBy(p) = {"stop"}
        /\ removedBy[q] = {"monitor"} /\ StoppedBy(q) = {"monitor"}

\* C3: is_running returns true only for an id that is in the registry; an id
\* enters the registry only by the insert of a start; and when stop(id) returns
\* the id is not in the registry.
C3_FalseBeforeStartAndAfterStop ==
    [][/\ \A t \in Threads :
              IsRunningReturns(t) /\ rv'[t] = "true" => registry[arg[t]] # 0
       /\ \A t \in Threads : StopReturns(t) => registry'[arg[t]] = 0
       /\ \A i \in Ids :
              registry[i] = 0 /\ registry'[i] # 0
                  => \E t \in Threads : InsertStep(t, i)]_vars

\* C3 witness: stop(id) returned Ok after removing the entry of id.
C3_Witness ==
    \E t \in Threads, p \in Procs :
        /\ pc[t] = "ret" /\ op[t] = "stop" /\ rv[t] = "Ok"
        /\ removedBy[p] = {"stop"} /\ procId[p] = arg[t]
        /\ registry[arg[t]] = 0

\* C4: when shutdown_server(id) returns and no other lifecycle call on id
\* overlapped it, id is not in the registry.
C4_ShutdownUnregisters ==
    \A t \in Threads :
        pc[t] = "ret" /\ op[t] = "shutdown" /\ clean[t]
            => registry[arg[t]] = 0

\* C5: when shutdown_server(id), called on a registered live server, returns
\* after a failed RCON connect, id is not in the registry and one stopped
\* notification was emitted for the server.
C5_ConnectFailureFallsBackToStop ==
    \A t \in Threads :
        pc[t] = "ret" /\ op[t] = "shutdown" /\ clean[t]
        /\ loc[t].conn = "failed" /\ loc[t].p0 # 0
            => /\ registry[arg[t]] = 0
               /\ Cardinality(StoppedAt(loc[t].p0)) = 1

\* C6: when restart_server(id), called on a registered live server, returns Ok,
\* exactly one stopped notification for the old process was emitted, followed
\* by exactly one running notification for the new one.
C6_RestartStopsThenRuns ==
    \A t \in Threads :
        pc[t] = "ret" /\ op[t] = "restart" /\ rv[t] = "Ok" /\ clean[t]
        /\ loc[t].p0 # 0
            => /\ Cardinality(StoppedAt(loc[t].p0)) = 1
               /\ Cardinality(RunningAt(loc[t].p)) = 1
               /\ \A a \in StoppedAt(loc[t].p0), b \in RunningAt(loc[t].p) : a < b

\* The ready notifications emitted for process p, by position in events.
OnlineAt(p) ==
    {k \in 1..Len(events) : events[k].status = "online" /\ events[k].proc = p}

\* C7: once the watcher of a started process, not cancelled, has consumed its
\* log file to the end, a readiness marker line appended after start_server
\* returned has caused exactly one ready notification for that process.
C7_MarkerAfterStartMakesReady ==
    \A p \in Procs :
        (/\ wpc[p] = "tail" /\ ~stopFlag[p]
         /\ wpos[p] = Len(log[procId[p]])
         /\ \E k \in (logAtStart[p] + 1)..Len(log[procId[p]]) :
                IsReadyLine(log[procId[p]][k]))
            => Cardinality(OnlineAt(p)) = 1

\* What a listener receives of a notification: ServerStatusEvent.
PayloadOf(e) == [server_id |-> e.id, status |-> e.status]
Payloads(ev) == [k \in 1..Len(ev) |-> PayloadOf(ev[k])]

\* C11: outside the monitor's own critical section no registered process has
\* its stop flag set: on every removal path the flag and the removal happen in
\* one critical section of the registry lock.
C11_NoRegisteredEntryIsCancelled ==
    monPc = "sleep"
        => \A i \in Ids : registry[i] # 0 => ~stopFlag[registry[i]]

\* C11 witness: is_running has removed and cancelled one process while another
\* is registered with its flag unset.
C11_Witness ==
    \E p, q \in Procs :
        /\ stopFlag[p] /\ removedBy[p] = {"is_running"}
        /\ procId[q] \in Ids /\ registry[procId[q]] = q
        /\ ~stopFlag[q] /\ monPc = "sleep"

\* C12: a thread that is blocked in child.wait() does not hold the registry
\* lock.
C12_NoLockAcrossBlockingCall ==
    \A t \in Threads : pc[t] = "sp_wait" => lock # t

\* C13: while stop_server is held up by a process the OS refused to kill, an
\* is_running call that has been made can complete.
C13_RefusedKillBlocksNobody ==
    \A t, u \in Threads :
        (pc[t] = "sp_wait" /\ procState[loc[t].p] = "alive" /\ pc[u] = "ir_check")
            => ENABLED IsRunning(u)

\* C14: a stopped notification emitted by the monitor differs, in what its
\* listeners receive, from one emitted by stop_server.
C14_UnplannedStopIsTagged ==
    \A j, k \in 1..Len(events) :
        events[j].by = "monitor" /\ events[k].by = "stop"
            => PayloadOf(events[j]) # PayloadOf(events[k])

\* The effect of reconciling process p of id i: the entry removed, the stop
\* flag set, one stopped notification appended, nothing else touched.
Reconciles(i, p) ==
    /\ registry' = [registry EXCEPT ![i] = 0]
    /\ stopFlag' = [stopFlag EXCEPT ![p] = TRUE]
    /\ Payloads(events') =
           Append(Payloads(events), [server_id |-> i, status |-> "stopped"])
    /\ onlineFlag' = onlineFlag
    /\ procState' = procState

C16_CancelledWatchStopsAtNextIteration ==
    [][\A p \in Procs :
           (/\ stopFlag[p] /\ wpc[p] \in {"wait", "tail"}
            /\ <<wpc[p], wpos[p], wtries[p]>>' # <<wpc[p], wpos[p], wtries[p]>>)
               => wpc'[p] = "done" /\ events' = events]_vars

\* A watcher that is running and has not been cancelled.
LiveWatch(p) == wpc[p] \in {"wait", "tail"} /\ ~stopFlag[p]

\* C17: every id has at most one live watcher, and a live watcher belongs to
\* the process registered for its id.
C17_OneLiveWatchPerRegisteredId ==
    /\ \A i \in Ids : Cardinality({p \in Procs : procId[p] = i /\ LiveWatch(p)}) <= 1
    /\ \A p \in Procs : LiveWatch(p) => registry[procId[p]] = p

\* C18: a watcher tailing a log file that has become unreadable for good
\* terminates, whether or not its stop flag is ever set.
C18_UnreadableLogEndsWatch ==
    \A p \in Procs :
        [](wpc[p] = "tail" /\ logBroken[procId[p]] => <>(wpc[p] = "done"))

\* C19: every process whose entry the monitor removed has a crash event for
\* its id in the Guardian's crash log and a crash counter of at least one.
C19_MonitorRemovalLogsCrash ==
    \A p \in Procs :
        "monitor" \in removedBy[p]
            => /\ crash_counts[procId[p]] >= 1
               /\ \E k \in 1..Len(crash_log) : crash_log[k].server_id = procId[p]

\* The ids with a pid registered with the Guardian.
RegisteredPids == {i \in GuardedIds : server_pids[i] # 0}

\* C20: every get_all_health that has begun returns, and what it returns holds
\* exactly one snapshot for each id registered with the Guardian.
C20_GetAllHealthReturnsAll ==
    \A g \in Tasks :
        [](gpc[g] = "all_lock"
             => <>(/\ gpc[g] = "ret"
                   /\ Len(ghealth[g]) = Cardinality(RegisteredPids)
                   /\ {ghealth[g][k].server_id : k \in 1..Len(ghealth[g])}
                          = RegisteredPids))

\* C8: a start whose checks find the executable missing or one of the game,
\* query and RCON ports bound returns a precondition error in that step, with
\* no process spawned, the registry unchanged and nothing emitted.
C8_PreconditionFailureSpawnsNothing ==
    [][\A t \in Threads :
           pc[t] = "st_check" /\ seen'[t] = "bad"
               => /\ pc'[t] = "ret"
                  /\ rv'[t] \in StartErrors
                  /\ procState' = procState
                  /\ registry' = registry
                  /\ events' = events]_vars

\* C8 witness: start failed on the last check, the RCON port.
C8_Witness ==
    \E t \in Threads :
        pc[t] = "ret" /\ seen[t] = "bad" /\ rv[t] = "RconPortInUse"

\* C9 as stated: a start that polls a child that has exited returns the
\* immediate-exit error, with no entry inserted, nothing emitted and no log
\* watcher started.
C9_ExitedChildIsImmediateExit ==
    [][\A t \in Threads :
           pc[t] = "st_grace" /\ procState[loc[t].p] = "exited" /\ pc'[t] # "st_grace"
               => /\ pc'[t] = "ret"
                  /\ rv'[t] = "ImmediateExit"
                  /\ registry' = registry
                  /\ events' = events
                  /\ wpc' = wpc]_vars

\* C9 amended: a start that polls a child that has exited returns an error,
\* the immediate-exit error or, when the poll itself fails, the status-check
\* error, with no entry inserted, nothing emitted and no log watcher started.
C9_ExitedChildIsNeverRegistered ==
    [][\A t \in Threads :
           pc[t] = "st_grace" /\ procState[loc[t].p] = "exited" /\ pc'[t] # "st_grace"
               => /\ pc'[t] = "ret"
                  /\ rv'[t] \in {"ImmediateExit", "CheckFailed"}
                  /\ registry' = registry
                  /\ events' = events
                  /\ wpc' = wpc]_vars

\* C9 witness: start returned the immediate-exit error and its child was never
\* registered.
C9_Witness ==
    \E t \in Threads :
        /\ pc[t] = "ret" /\ rv[t] = "ImmediateExit"
        /\ procState[loc[t].p] = "exited"
        /\ removedBy[loc[t].p] = {} /\ wpc[loc[t].p] = "none"
        /\ \A i \in Ids : registry[i] # loc[t].p

\* C10: is_running(id) returns true if and only if id is in the registry when
\* the call returns.
C10_IsRunningIffRegistered ==
    [][\A t \in Threads :
           IsRunningReturns(t) => (rv'[t] = "true" <=> registry'[arg[t]] # 0)]_vars



\* C25: stop(id) on an id that is not registered returns Ok, leaves the
\* registry, the processes and their flags as they are and emits nothing.
C25_StopOfUnregisteredIsNoOp ==
    [][\A t \in Threads :
           (pc[t] = "sp_remove" /\ op[t] = "stop" /\ registry[arg[t]] = 0
                /\ pc'[t] # pc[t])
               => /\ pc'[t] = "ret" /\ rv'[t] = "Ok"
                  /\ registry' = registry
                  /\ events' = events
                  /\ stopFlag' = stopFlag
                  /\ procState' = procState]_vars

\* C25 witness: two stops of the same id have returned Ok and one "stopped"
\* notification was emitted for them: the second stop was the no-op.
C25_Witness ==
    /\ \A t \in Threads : pc[t] = "ret" /\ op[t] = "stop" /\ rv[t] = "Ok"
    /\ \A t, u \in Threads : arg[t] = arg[u]
    /\ Cardinality({k \in DOMAIN events : events[k].by = "stop"}) = 1

\* What the steps of shutdown_server on thread t keep to, whatever the number
\* of polls: SaveWorld and DoExit are issued in that order and only after a
\* successful connect, the wait loop comes after them, and stop_server is
\* entered from the final is_running check alone, exactly when it returned true.
ShutdownOrder(t) ==
    /\ loc'[t].cmds # loc[t].cmds
           => /\ loc[t].conn = "ok"
              /\ loc[t].cmds = <<>> /\ loc[t].polls = 0
              /\ loc'[t].cmds = <<"SaveWorld", "DoExit">>
    /\ loc'[t].polls # loc[t].polls
           => pc[t] = "sd_poll" /\ loc[t].cmds # <<>>
    /\ pc'[t] = "sp_remove" /\ pc[t] # "sp_remove" => pc[t] = "sd_final"
    /\ pc[t] = "sd_final" /\ pc'[t] # "sd_final"
           => (pc'[t] = "sp_remove" <=> loc'[t].last = "true")

\* C30 as stated: ShutdownOrder, and the wait loop evaluates is_running at most
\* MaxExitPoll times.
C30_AtMostMaxExitPollPolls ==
    [][\A t \in Threads :
           op[t] = "shutdown" /\ op'[t] = "shutdown"
               => ShutdownOrder(t) /\ loc'[t].polls <= MaxExitPoll]_vars

\* C30 amended: ShutdownOrder, and the wait loop sleeps at most MaxExitPoll
\* times, which takes up to MaxExitPoll + 1 evaluations of is_running; the
\* final check is one more.
C30_ShutdownOrderAndPolls ==
    [][\A t \in Threads :
           op[t] = "shutdown" /\ op'[t] = "shutdown"
               => /\ ShutdownOrder(t)
                  /\ loc'[t].n <= MaxExitPoll
                  /\ loc'[t].polls <= MaxExitPoll + 1]_vars

\* C30 witness: a shutdown that connected, issued both commands, used up the
\* wait loop and is in the forced stop.
C30_Witness ==
    \E t \in Threads :
        /\ op[t] = "shutdown" /\ pc[t] = "sp_wait"
        /\ loc[t].cmds = <<"SaveWorld", "DoExit">>
        /\ loc[t].polls = MaxExitPoll + 1 /\ loc[t].last = "true"

\* C21: while a command for one server awaits its response, a command, connect
\* or disconnect for another server that stands at its first lock can take it.
C21_OtherServersCommandsProceed ==
    \A a, b \in RconTasks :
        rpc[a] = "cmd_wait" /\ rpc[b] = "enter" /\ rarg[a] # rarg[b]
            => ENABLED RconEnter(b)

\* C22: the map holds one session per id; connect(id) that succeeds makes its
\* own session the id's session, replacing the earlier one, and touches no
\* other id; connect(id) that fails returns an error and leaves the map as it
\* was.
C22_ConnectReplacesOrLeaves ==
    [][\A r \in RconTasks :
           rpc[r] = "connecting" /\ rpc'[r] # "connecting"
               => /\ rret'[r] \in {"Ok", "ConnectFailed"}
                  /\ rret'[r] = "Ok"
                         => /\ sessions'[rarg[r]] = r
                            /\ \A i \in RconIds \ {rarg[r]} :
                                   sessions'[i] = sessions[i]
                  /\ rret'[r] = "ConnectFailed" => sessions' = sessions]_vars

\* C22 witness: a connect has failed for an id whose session, opened by the
\* other task, is still in the map.
C22_Witness ==
    \E r \in RconTasks :
        /\ rpc[r] = "ret" /\ rop[r] = "connect" /\ rret[r] = "ConnectFailed"
        /\ sessions[rarg[r]] \in RconTasks \ {r}

\* C23: send_command and every helper built on it, called for an id without a
\* session, return the no-connection error, write nothing to any session and
\* leave the map as it was.
C23_NoSessionNoSend ==
    [][\A r \in RconTasks :
           (rpc[r] = "cmd_lock" /\ rpc'[r] # "cmd_lock"
                /\ sessions[rarg[r]] = "none")
               => /\ rpc'[r] = "ret" /\ rret'[r] = "NoConnection"
                  /\ rsent' = rsent
                  /\ sessions' = sessions
                  /\ connLock' = connLock]_vars

\* C23 witness: a helper has returned the no-connection error while the other
\* server's session is open.
C23_Witness ==
    \E r \in RconTasks :
        /\ rpc[r] = "ret" /\ rop[r] \notin {"connect", "disconnect", "send_command"}
        /\ rret[r] = "NoConnection" /\ rsent[r] = "none"
        /\ sessions[rarg[r]] = "none"
        /\ \E i \in RconIds : sessions[i] # "none"

\* C24: after any sequence of log_crash calls the crash log holds at most
\* CrashLogCap events, and they are the events of the most recent calls,
\* oldest first.
C24_CrashLogKeepsMostRecent ==
    LET total == CrashTotal(crash_counts, GuardedIds)
        kept == Min(total, CrashLogCap)
    IN  /\ Len(crash_log) = kept
        /\ \A k \in 1..kept : crash_log[k].seq = total - kept + k

\* C24 witness: more calls than the cap have been made, for both ids.
C24_Witness ==
    /\ CrashTotal(crash_counts, GuardedIds) > CrashLogCap
    /\ Len(crash_log) = CrashLogCap
    /\ \A i \in GuardedIds : crash_counts[i] > 0

\* C26: a line that contains "server has successfully started" or
\* "Full Startup:", read while the watch is not yet ready, makes it ready.
C26_MarkerLineMakesReady ==
    scan.st = "checked" /\ ~scan.online
        /\ (\/ Contains(scan.line, MarkerText(MarkerStarted))
            \/ Contains(scan.line,
                   <<"F", "u", "l", "l", " ", "S", "t", "a", "r", "t", "u", "p", ":">>))
        => scan.ready

\* The records the shape "<index>. <name>, <identifier>" allows for a line:
\* digits, a dot, a name, a comma and an identifier, name and identifier not
\* empty, blanks around the parts not counted.
ShapedRecords(raw) ==
    LET line == Trim(raw)
    IN  {[id |-> DecimalValue(Trim(SubSeq(line, 1, i - 1))),
          name |-> Trim(SubSeq(line, i + 1, j - 1)),
          steam_id |-> Trim(SubSeq(line, j + 1, Len(line)))] :
             <<i, j>> \in
                 {<<i, j>> \in (DOMAIN line) \X (DOMAIN line) :
                      /\ i < j /\ line[i] = "." /\ line[j] = ","
                      /\ Trim(SubSeq(line, 1, i - 1)) # <<>>
                      /\ \A k \in DOMAIN Trim(SubSeq(line, 1, i - 1)) :
                             IsDigit(Trim(SubSeq(line, 1, i - 1))[k])
                      /\ Trim(SubSeq(line, i + 1, j - 1)) # <<>>
                      /\ Trim(SubSeq(line, j + 1, Len(line))) # <<>>}}

\* What the claim allows parse_player_list to return for a sequence of lines.
RECURSIVE ShapedPlayers(_)
ShapedPlayers(lines) ==
    IF lines = <<>> THEN {<<>>}
    ELSE LET first == IF ShapedRecords(Head(lines)) = {} THEN {<<>>}
                      ELSE {<<r>> : r \in ShapedRecords(Head(lines))}
         IN  {f \o rest : f \in first, rest \in ShapedPlayers(Tail(lines))}

\* C28: parse_player_list returns, in input order, one record for each line of
\* the shape "<index>. <name>, <identifier>" and none for any other line.
C28_OneRecordPerShapedLine ==
    parsed.st = "parsed"
        => parsed.players \in ShapedPlayers(SplitLines(parsed.data))

\* C27: the argument list is the connection string, with ?ServerPassword
\* exactly when a password is supplied; -log; the anti-cheat flag; -MultiHome
\* exactly for a non-empty address; -clusterid and -ClusterDirOverride exactly
\* when both are non-empty; -mods with the ids joined by commas exactly for a
\* non-empty list; and the extra arguments, split on white space, last.
C27_ArgumentListInOrder ==
    launch.st = "built" =>
        LET Given(o) == o.some /\ o.v # <<>>
            a == launch.args
            c == launch.settings
            hasCluster == Given(c.cluster_id) /\ Given(c.cluster_dir)
            nHome == IF Given(c.ip_address) THEN 1 ELSE 0
            nCluster == IF hasCluster THEN 2 ELSE 0
            nMods == IF Given(c.mods) THEN 1 ELSE 0
            extra == IF c.custom_args.some
                     THEN SplitWhitespace(c.custom_args.v) ELSE <<>>
            fixed == 3 + nHome + nCluster + nMods
        IN  /\ Len(a) = fixed + Len(extra)
            /\ a[1] = c.map_name \o Lit.listen
                          \o Lit.session_name \o c.session_name
                          \o Lit.port \o <<"7", "7", "7", "7">>
                          \o Lit.query_port \o <<"2", "7", "0", "1", "5">>
                          \o Lit.rcon_port \o <<"2", "7", "0", "2", "0">>
                          \o Lit.max_players \o <<"7", "0">>
                          \o Lit.admin_password \o c.admin_password
                          \o (IF c.server_password.some
                              THEN Lit.server_password \o c.server_password.v
                              ELSE <<>>)
            /\ a[2] = Lit.log
            /\ a[3] = Lit.no_battleye
            /\ Given(c.ip_address) => a[4] = Lit.multi_home \o c.ip_address.v
            /\ hasCluster
                   => /\ a[4 + nHome] = Lit.cluster_id \o c.cluster_id.v
                      /\ a[5 + nHome] =
                             Lit.cluster_dir \o <<"\"">> \o c.cluster_dir.v \o <<"\"">>
            /\ Given(c.mods)
                   => a[4 + nHome + nCluster] = Lit.mods \o Join(c.mods.v, <<",">>)
            /\ SubSeq(a, fixed + 1, Len(a)) = extra
            /\ \A k \in DOMAIN extra :
                   extra[k] # <<>> /\ \A j \in DOMAIN extra[k] : extra[k][j] \notin WhiteSpace

\* C27 witness: a list built with every optional setting present, two mods
\* and two extra arguments.
C27_Witness ==
    /\ launch.st = "built"
    /\ Len(launch.args) = 9
    /\ launch.settings.server_password = Some(<<"p", "w">>)
    /\ Len(launch.settings.mods.v) = 2

\* The (section, key) pairs a parsed document defines.
Defined(p) ==
    {<<s, k>> \in UNION {{<<t, j>> : j \in DOMAIN p.sections[t]} : t \in DOMAIN p.sections} :
         TRUE}

\* C29: in the document merge(base, updates) returns, every (section, key) of
\* updates has the value updates gives it, and every (section, key) of base
\* that updates does not define keeps the value base gives it, whether or not
\* updates mentions its section.
C29_MergeKeepsBaseAndTakesUpdates ==
    merged.st = "merged" =>
        LET b == IniParse(merged.base)
            u == IniParse(merged.updates)
            m == IniParse(merged.out)
        IN  /\ \A sk \in Defined(u) :
                   /\ sk \in Defined(m)
                   /\ m.sections[sk[1]][sk[2]] = u.sections[sk[1]][sk[2]]
            /\ \A sk \in Defined(b) \ Defined(u) :
                   /\ sk \in Defined(m)
                   /\ m.sections[sk[1]][sk[2]] = b.sections[sk[1]][sk[2]]

\* C29 witness: a merge in which updates overrides a key of base and adds a
\* key of its own, and base has a key in a section updates does not mention.
C29_Witness ==
    /\ merged.st = "merged"
    /\ LET b == IniParse(merged.base)
           u == IniParse(merged.updates)
       IN  /\ \E sk \in Defined(b) \cap Defined(u) :
                  b.sections[sk[1]][sk[2]] # u.sections[sk[1]][sk[2]]
           /\ \E sk \in Defined(b) : sk[1] \notin DOMAIN u.sections
           /\ Defined(u) \ Defined(b) # {}

\* C31: the running notification of a start is emitted only when the poll at
\* the end of the grace period found the process alive and never before that
\* poll; every ready notification about a process comes after the running
\* notification about it; a start that returns an error has emitted no
\* running notification for the process it spawned and has started no log
\* watcher for it, and a process without a watcher never gets a ready
\* notification.
C31_RunningAfterGraceReadyAfterRunning ==
    /\ [](\A t \in Threads :
              pc[t] = "st_grace"
                  => RunningAt(loc[t].p) = {} /\ OnlineAt(loc[t].p) = {})
    /\ [](\A p \in Procs :
              /\ \A a \in OnlineAt(p) : \E b \in RunningAt(p) : b < a
              /\ wpc[p] = "none" => OnlineAt(p) = {})
    /\ [][\A t \in Threads :
              /\ (pc[t] = "st_grace" /\ pc'[t] = "st_emit")
                     => procState[loc[t].p] = "alive"
              /\ (op[t] = "start" /\ pc[t] # "ret" /\ pc'[t] = "ret"
                  /\ rv'[t] # "Ok" /\ loc[t].p # 0)
                     => /\ RunningAt(loc[t].p) = {}
                        /\ wpc'[loc[t].p] = "none"]_vars

\* A process was started and became ready, and another start has returned an
\* error after its process exited in the grace period.
C31_Witness ==
    \E p, q \in Procs :
        /\ OnlineAt(p) # {}
        /\ procState[q] = "exited" /\ RunningAt(q) = {} /\ wpc[q] = "none"
        /\ \A t \in Threads : loc[t].p # q

\* C32: every log_crash call, for the id of the event it pushes, increments
\* that id's counter by exactly one and leaves the other counters alone; a
\* counter is never below the number of the id's events still in the log, and
\* equals it as long as no event has been evicted.
C32_CrashCountCountsCalls ==
    /\ [][crash_counts' =
              [crash_counts EXCEPT
                   ![crash_log'[Len(crash_log')].server_id] = @ + 1]]_vars
    /\ [](\A i \in GuardedIds :
              LET held == Cardinality({k \in DOMAIN crash_log :
                                          crash_log[k].server_id = i})
              IN  /\ crash_counts[i] >= held
                  /\ Len(crash_log) < CrashLogCap => crash_counts[i] = held)

\* Events of both ids have been logged and some of them evicted: a counter is
\* above the cap while the log holds CrashLogCap events.
C32_Witness ==
    /\ Len(crash_log) = CrashLogCap
    /\ \E i \in GuardedIds : crash_counts[i] > CrashLogCap
    /\ \E i \in GuardedIds :
           /\ crash_counts[i] > 0
           /\ \A k \in DOMAIN crash_log : crash_log[k].server_id # i

\* C33: the preference read for an id is true exactly when the id's latest
\* setting is "on", and false for an id never set; the setting of an id changes
\* only in a set_auto_restart step for that id, which stores a value whether
\* or not the id is registered; register_server, log_crash and
\* set_auto_restart for other ids leave it as it is; a health snapshot
\* returned for an id carries the preference read for it.
C33_AutoRestartIsLastSetting ==
    /\ [](\A i \in GuardedIds :
              /\ auto_restart_enabled[i] = "unset" => ~is_auto_restart_enabled(i)
              /\ auto_restart_enabled[i] = "off" => ~is_auto_restart_enabled(i)
              /\ auto_restart_enabled[i] = "on" => is_auto_restart_enabled(i))
    /\ [][\A i \in GuardedIds :
              auto_restart_enabled'[i] # auto_restart_enabled[i]
                  => /\ auto_restart_enabled'[i] \in {"on", "off"}
                     /\ \E g \in Tasks :
                            /\ gpc[g] = "set_auto" /\ garg[g] = i
                            /\ gpc'[g] = "ret"]_vars
    /\ [][\A g \in Tasks :
              (gpc[g] = "set_auto" /\ gpc'[g] = "ret")
                  => auto_restart_enabled'[garg[g]] \in {"on", "off"}]_vars
    /\ [][\A g \in Tasks :
              (gpc[g] = "health" /\ gpc'[g] = "ret" /\ ghealth'[g] # <<>>)
                  => ghealth'[g][1].auto_restart_enabled
                         = (auto_restart_enabled[garg[g]] = "on")]_vars

\* An id was set to "on" while unregistered, then registered, a crash of it was
\* logged, and its health snapshot reports the preference; the other id was
\* set to "off" and never registered.
C33_Witness ==
    \E i, j \in GuardedIds :
        /\ i # j
        /\ gpc["g1"] = "ret" /\ gop["g1"] = "get_server_health"
        /\ ghealth["g1"] # <<>>
        /\ ghealth["g1"][1].server_id = i
        /\ ghealth["g1"][1].auto_restart_enabled
        /\ crash_counts[i] > 0
        /\ auto_restart_enabled[j] = "off" /\ server_pids[j] = 0

\* C34: no process is orphaned: a live process that no call in progress holds
\* (the start that spawned it has returned, no stop is waiting for it) is the
\* child of the registry entry of its id.
C34_NoLiveProcessOutsideRegistry ==
    \A p \in Procs :
        (procState[p] = "alive" /\ \A t \in Threads : loc[t].p # p)
            => registry[procId[p]] = p

\* C35: every ready notification (and with it the database write of 'online')
\* about a process precedes every stopped notification about it.
C35_NoReadyAfterStopped ==
    \A p \in Procs :
        \A a \in StoppedAt(p), b \in OnlineAt(p) : b < a

\* C36: in the step that emits the running notification of a start, the
\* registry already holds the started process under its id.
C36_RegisteredWhenRunningIsEmitted ==
    [][\A t \in Threads :
           (pc[t] = "st_emit" /\ Len(events') = Len(events) + 1
            /\ events'[Len(events')].status = "running")
               => registry'[arg[t]] = loc[t].p]_vars

C38_OnlyDisconnectRemovesSession ==
    [][\A i \in RconIds :
           (sessions[i] # "none" /\ sessions'[i] = "none")
               => \E r \in RconTasks :
                      /\ rop[r] = "disconnect" /\ rarg[r] = i
                      /\ rpc[r] = "disc" /\ rpc'[r] = "ret"]_vars

\* The session that a shutdown_server of id 1 opened is still in the map after
\* the shutdown has returned, the server process has exited and its entry is
\* gone, and a send_command for the id has failed.
C38_Witness ==
    /\ sessions[1] \in Threads
    /\ \E p \in Procs : procId[p] = 1 /\ procState[p] = "exited"
    /\ registry[1] = 0
    /\ \A t \in Threads : pc[t] = "idle"
    /\ rpc["r1"] = "ret" /\ rop["r1"] = "send_command" /\ rarg["r1"] = 1
    /\ rret["r1"] = "CommandFailed"

\* The mutex an operation in progress needs for its next step: the registry
\* mutex ("registry"), the RconState mutex ("service") or the connections
\* mutex ("sessions"); "none" when the step takes no mutex.
NeedsLock(a) ==
    IF a = "monitor" THEN (IF monPc = "sleep" THEN "registry" ELSE "none")
    ELSE IF a \in Threads
    THEN (IF pc[a] \in {"ir_check", "sp_remove", "st_insert", "sd_poll",
                        "sd_final", "rs_isrun"}
          THEN "registry"
          ELSE IF pc[a] = "sd_connect" THEN "service" ELSE "none")
    ELSE (IF rpc[a] = "enter" THEN "service"
          ELSE IF rpc[a] \in {"disc", "cmd_lock"} THEN "sessions" ELSE "none")

\* Who holds a mutex.
HolderOf(m) ==
    CASE m = "registry" -> lock
      [] m = "service" -> rLock
      [] m = "sessions" -> connLock

\* Operation a waits for a mutex that another operation holds.
WaitsForLock(a) ==
    NeedsLock(a) # "none" /\ HolderOf(NeedsLock(a)) \notin {"free", a}

\* Following, from a, who holds what the waiting one waits for, an operation
\* that waits for no mutex is reached within n steps.
RECURSIVE WaitEnds(_, _)
WaitEnds(a, n) ==
    IF ~WaitsForLock(a) THEN TRUE
    ELSE IF n = 0 THEN FALSE
    ELSE WaitEnds(HolderOf(NeedsLock(a)), n - 1)

\* C39: whoever holds the registry mutex needs no mutex for its next step;
\* the connections mutex is held only inside the RconState mutex, and neither
\* of the two is taken by a holder of the registry mutex, nor the registry
\* mutex by a holder of the connections mutex; and the operations that wait
\* for a mutex never wait for one another in a circle.
C39_NoCyclicWait ==
    /\ [](/\ lock # "free" => NeedsLock(lock) = "none"
          /\ connLock # "free" => rLock = connLock
          /\ \A a \in Threads \cup RconTasks \cup {"monitor"} :
                 WaitEnds(a, Cardinality(Threads \cup RconTasks) + 1))
    /\ [][/\ (rLock' # rLock /\ rLock' # "free") => lock # rLock'
          /\ (connLock' # connLock /\ connLock' # "free") => lock # connLock'
          /\ (lock' # lock /\ lock' # "free") => connLock # lock']_vars

\* stop_server waits for the process with the registry mutex while the
\* shutdown_server that holds the RconState mutex waits for the registry and
\* an RCON command waits for the RconState mutex.
C39_Witness ==
    \E t, u \in Threads :
        /\ lock = u /\ pc[u] = "sp_wait"
        /\ rLock = t /\ op[t] = "shutdown" /\ WaitsForLock(t)
        /\ WaitsForLock("r1")

====
